---- MODULE Spec2Model ----
(***************************************************************************)
(* Header chain engine of go-chaintracks: the in-memory index kept by      *)
(* ChainManager (byHeight, byHash, tip), the admission of block            *)
(* announcements (handleBlockMessage -> addBlockToChain -> AddHeader /     *)
(* SetChainTip), orphan pruning, and the header file + manifest written    *)
(* by SetChainTip.                                                         *)
(*                                                                         *)
(* A hash is a natural number; ZeroHash is chainhash.Hash{} (all zero).    *)
(* A raw header is identified by its hash and carries PrevHash and Bits.   *)
(* A *BlockHeader is a record [hash, PrevHash, Bits, Height, ChainWork];   *)
(* the nil pointer is NilHeader.  byHeight is 1-indexed here: the entry of *)
(* height h is byHeight[h + 1].                                            *)
(***************************************************************************)
EXTENDS Integers, Sequences, FiniteSets, TLC

VARIABLES
    byHeight,   \* ChainManager.byHeight : []chainhash.Hash
    byHash,     \* ChainManager.byHash   : map[chainhash.Hash]*BlockHeader
    tip,        \* ChainManager.tip      : *BlockHeader
    files,      \* <network>Net_<k>.headers : file index -> sequence of 80-byte slots
    manifest,   \* <network>NetBlockHeaders.json : [exists, Files]
    announced,  \* number of distinct new headers the network has produced so far
    wrong,      \* number of announcements whose claimed height was not parent.Height + 1
    lastErr,    \* what the last handler call returned
    p2pClient,  \* ChainManager.p2pClient # nil
    msgChan,    \* ChainManager.msgChan : chan *BlockHeader, [made, buf, closed]
    ctxDone,    \* the context passed to ChainManager.Start is cancelled
    loop,       \* the message-handler goroutine of Start: "none", "running", "exited"
    consumer,   \* a consumer ranging over the channel Start returned: "none", "ranging", "done"
    cc,         \* ChainClient: [started, msgChan, currentTip, lastHash, ctxDone], and
                \* over several Starts: [starts, stops, cancelFunc, cancelled, retired,
                \* readers, panic]
    stream,     \* number of distinct tips the server has put on the SSE stream
    seen,       \* the tips the consumer of ChainClient's channel has received, in order
    synced,     \* ChainManager.synced
    walk,       \* the backfill the handler is in: [active, hops, gap, anchor, bits, done]
    answer,     \* what the last ChainTracker call returned: [op, value, err]
    boot,       \* the last NewChainManager call: [variant, damage, handed]
    handlers,   \* the handler goroutines Start has created, with the channel each Start
                \* returned: [pc, pending, open, left, closes]
    req,        \* the HTTP request the server is answering: [op, height, count, got,
                \* cache, tipRead, done]
    mu,         \* ChainManager.mu : sync.RWMutex, [writer, readers, queue]
    calls       \* for each goroutine, the lock operations left in the call it is in

chainVars == <<byHeight, byHash, tip, files, manifest, announced, wrong, lastErr>>
p2pVars == <<p2pClient, msgChan, ctxDone, loop, consumer, walk>>
sseVars == <<cc, stream, seen>>
trackerVars == <<synced, answer>>
bootVars == <<boot, handlers, req>>
lockVars == <<mu, calls>>

vars == <<byHeight, byHash, tip, files, manifest, announced, wrong, lastErr,
          p2pClient, msgChan, ctxDone, loop, consumer, cc, stream, seen,
          synced, answer, walk, boot, handlers, req, mu, calls>>

-----------------------------------------------------------------------------
(* Bounds of the model *)

\* new (not loaded from disk) headers the network announces
MaxNew == 2
\* announcements that claim a height other than parent.Height + 1
MaxWrong == 1
\* a new header's parent lies within ForkWindow of genesis or of the tip
ForkWindow == 2
\* tip height of the long chain a manager may load at construction
LongTip == 101
\* chain work is computed in 2^WorkWidth units instead of 2^256
WorkWidth == 16

(* Program constants *)

\* pruneOrphans keeps side headers for 100 blocks
OrphanDepth == 100
\* heights per header file
FileSpan == 100000

ZeroHash == 0

NilHeader == [hash |-> ZeroHash, PrevHash |-> ZeroHash, Bits |-> 0,
              Height |-> 0, ChainWork |-> 0]

\* capacity of the tip channels: make(chan *BlockHeader, 1)
ChanCap == 1

\* a nil channel, and the channel make returns
NilChan == [made |-> FALSE, buf |-> <<>>, closed |-> FALSE]
MakeChan == [made |-> TRUE, buf |-> <<>>, closed |-> FALSE]

\* no <network>NetBlockHeaders.json at the storage path
NoManifest == [exists |-> FALSE, Files |-> <<>>]

-----------------------------------------------------------------------------
(* Work arithmetic *)

RECURSIVE Pow(_, _)
Pow(b, e) == IF e = 0 THEN 1 ELSE b * Pow(b, e - 1)

MantissaSpan == Pow(2, 24)
WorkUnit == Pow(2, WorkWidth)

\* compact bits -> target: mantissa << 8*(exponent-3), or >> when exponent < 3
CompactToBig(bits) ==
    LET exponent == bits \div MantissaSpan
        mantissa == bits % MantissaSpan
    IN  IF exponent >= 3 THEN mantissa * Pow(256, exponent - 3)
                         ELSE mantissa \div Pow(256, 3 - exponent)

\* work of one block: floor(2^W / (target + 1))
CalculateWork(bits) == WorkUnit \div (CompactToBig(bits) + 1)

\* compact encodings with exponent 3: target 7 (easy) and target 1 (hard)
EasyBits == 3 * MantissaSpan + 7
HardBits == 3 * MantissaSpan + 1
BitsChoices == {EasyBits, HardBits}

-----------------------------------------------------------------------------
(* The in-memory index: cm = [byHeight, byHash, tip] *)

PutHash(bhash, header) ==
    [h \in (DOMAIN bhash) \cup {header.hash} |->
        IF h = header.hash THEN header ELSE bhash[h]]

\* a SetChainTip that never shortens the slice
Truncate_Never(bh, newTipHeight) == bh

\* if uint32(len(cm.byHeight)) > newTipHeight+1 { cm.byHeight = cm.byHeight[:newTipHeight+1] }
Truncate(bh, newTipHeight) ==
    IF Len(bh) > newTipHeight + 1 THEN SubSeq(bh, 1, newTipHeight + 1) ELSE bh

GetHeaderByHash(cm, hash) ==
    IF hash \in DOMAIN cm.byHash THEN cm.byHash[hash] ELSE NilHeader

GetHeaderByHeight(cm, height) ==
    IF height >= Len(cm.byHeight) THEN NilHeader
    ELSE GetHeaderByHash(cm, cm.byHeight[height + 1])

GetTip(cm) == cm.tip

GetHeight(cm) == IF cm.tip = NilHeader THEN 0 ELSE cm.tip.Height

\* AddHeader: cm.byHash[hash] = header, nothing else
AddHeader(cm, header) == [cm EXCEPT !.byHash = PutHash(@, header)]

\* the main-chain test of pruneOrphans
OnMainChain(cm, hash) ==
    LET header == cm.byHash[hash]
    IN  /\ header.Height < Len(cm.byHeight)
        /\ cm.byHeight[header.Height + 1] = hash

PruneHeight(cm) ==
    IF cm.tip.Height > OrphanDepth THEN cm.tip.Height - OrphanDepth ELSE 0

pruneOrphans(cm) ==
    IF cm.tip = NilHeader THEN cm
    ELSE LET keep == {hash \in DOMAIN cm.byHash :
                        \/ OnMainChain(cm, hash)
                        \/ ~(cm.byHash[hash].Height < PruneHeight(cm))}
         IN  [cm EXCEPT !.byHash = [hash \in keep |-> cm.byHash[hash]]]

\* index of the last header of the branch written at a height (0: none)
LastAt(branchHeaders, height) ==
    LET at == {i \in 1..Len(branchHeaders) : branchHeaders[i].Height = height}
    IN  IF at = {} THEN 0 ELSE CHOOSE i \in at : \A j \in at : j <= i

\* index of the last header of the branch with a hash (0: none)
LastOf(branchHeaders, hash) ==
    LET at == {i \in 1..Len(branchHeaders) : branchHeaders[i].hash = hash}
    IN  IF at = {} THEN 0 ELSE CHOOSE i \in at : \A j \in at : j <= i

MaxHeight(branchHeaders) ==
    LET hs == {branchHeaders[i].Height : i \in 1..Len(branchHeaders)}
    IN  CHOOSE h \in hs : \A g \in hs : g <= h

\* the loop of SetChainTip over branchHeaders, as the state it ends in: every
\* header is written at its height (later ones win), the slice having grown
\* with zero hashes up to the greatest height, and stored under its hash
WriteBranch(cm, branchHeaders) ==
    LET oldLen == Len(cm.byHeight)
        old == SubSeq(cm.byHeight, 1, oldLen)
        newLen == IF oldLen <= MaxHeight(branchHeaders)
                  THEN MaxHeight(branchHeaders) + 1 ELSE oldLen
        hashes == {branchHeaders[i].hash : i \in 1..Len(branchHeaders)}
    IN  [cm EXCEPT
            !.byHeight = [k \in 1..newLen |->
                IF LastAt(branchHeaders, k - 1) # 0
                THEN branchHeaders[LastAt(branchHeaders, k - 1)].hash
                ELSE IF k <= oldLen THEN old[k] ELSE ZeroHash],
            !.byHash = [h \in (DOMAIN cm.byHash) \cup hashes |->
                IF h \in hashes THEN branchHeaders[LastOf(branchHeaders, h)]
                ELSE cm.byHash[h]]]

\* SetChainTip, the part under cm.mu
SetChainTipMem(cm, branchHeaders) ==
    LET lastHeader == branchHeaders[Len(branchHeaders)]
        written == WriteBranch(cm, branchHeaders)
        cut == [written EXCEPT !.byHeight = Truncate(@, lastHeader.Height),
                               !.tip = lastHeader]
    IN  pruneOrphans(cut)

-----------------------------------------------------------------------------
(* Header files and manifest: disk = [files, manifest] *)

RawHeader(header) ==
    [hash |-> header.hash, PrevHash |-> header.PrevHash, Bits |-> header.Bits]

\* 80 zero bytes, what a seek past the end of a file leaves behind
BlankSlot == [hash |-> -1, PrevHash |-> ZeroHash, Bits |-> 0]

FileOf(fs, fileIndex) == IF fileIndex \in DOMAIN fs THEN fs[fileIndex] ELSE <<>>

\* writeHeadersToFiles, as the files it leaves: every header of the branch is
\* written at slot Height % FileSpan of file Height / FileSpan (later ones win)
writeHeadersToFiles(fs, headers) ==
    LET idx == {headers[i].Height \div FileSpan : i \in 1..Len(headers)}
        inFile(k) == {i \in 1..Len(headers) : headers[i].Height \div FileSpan = k}
        slots(k) == {headers[i].Height % FileSpan : i \in inFile(k)}
        topSlot(k) == CHOOSE t \in slots(k) : \A u \in slots(k) : u <= t
        newLen(k) == IF Len(FileOf(fs, k)) <= topSlot(k) THEN topSlot(k) + 1
                     ELSE Len(FileOf(fs, k))
        writer(k, slot) ==
            LET at == {i \in inFile(k) : headers[i].Height % FileSpan = slot}
            IN  IF at = {} THEN 0 ELSE CHOOSE i \in at : \A j \in at : j <= i
    IN  [k \in (DOMAIN fs) \cup idx |->
            IF k \in idx
            THEN [n \in 1..newLen(k) |->
                    IF writer(k, n - 1) # 0 THEN RawHeader(headers[writer(k, n - 1)])
                    ELSE IF n <= Len(FileOf(fs, k)) THEN FileOf(fs, k)[n]
                    ELSE BlankSlot]
            ELSE fs[k]]

NewFileEntry(i) ==
    [Count |-> 0, FileIndex |-> i, FirstHeight |-> i * FileSpan,
     LastChainWork |-> 0, LastHash |-> ZeroHash,
     PrevChainWork |-> 0, PrevHash |-> ZeroHash]

\* updateMetadataForTip: the manifest it writes (mf is the manifest it reads)
updateMetadataForTip(cm, mf) ==
    LET entries == IF ~mf.exists THEN <<>> ELSE mf.Files
        tipHeader == GetTip(cm)
        fileIndex == tipHeader.Height \div FileSpan
        filled == IF Len(entries) <= fileIndex
                  THEN entries \o [i \in 1..(fileIndex + 1 - Len(entries)) |->
                                      NewFileEntry(Len(entries) + i - 1)]
                  ELSE entries
        prevHeader == IF tipHeader.Height > 0
                      THEN GetHeaderByHeight(cm, tipHeader.Height - 1)
                      ELSE NilHeader
        e0 == [filled[fileIndex + 1] EXCEPT
                  !.Count = (tipHeader.Height % FileSpan) + 1,
                  !.LastChainWork = tipHeader.ChainWork,
                  !.LastHash = tipHeader.hash]
        e1 == IF prevHeader # NilHeader
              THEN [e0 EXCEPT !.PrevChainWork = prevHeader.ChainWork,
                              !.PrevHash = prevHeader.hash]
              ELSE e0
    IN  IF tipHeader = NilHeader THEN mf
        ELSE [exists |-> TRUE, Files |-> [filled EXCEPT ![fileIndex + 1] = e1]]

IOOutcomes == {"ok", "writeFail", "metaFail"}

\* a SetChainTip that restores the index when persisting fails
SetChainTip_Unwinding(cm, disk, branchHeaders, io) ==
    IF Len(branchHeaders) = 0 THEN [cm |-> cm, disk |-> disk, err |-> "nil"]
    ELSE LET mem == SetChainTipMem(cm, branchHeaders)
         IN  CASE io = "writeFail" ->
                    [cm |-> cm, disk |-> disk, err |-> "writeHeadersToFiles"]
               [] io = "metaFail" ->
                    [cm |-> cm, disk |-> disk, err |-> "updateMetadataForTip"]
               [] OTHER ->
                    [cm |-> mem,
                     disk |-> [files |-> writeHeadersToFiles(disk.files, branchHeaders),
                               manifest |-> updateMetadataForTip(mem, disk.manifest)],
                     err |-> "nil"]

\* SetChainTip: memory under the lock, then the files, then the manifest.
\* io is what the filesystem does: a failed write leaves the files and the
\* manifest as they were, a failed manifest refresh leaves the manifest.
SetChainTip(cm, disk, branchHeaders, io) ==
    IF Len(branchHeaders) = 0 THEN [cm |-> cm, disk |-> disk, err |-> "nil"]
    ELSE LET mem == SetChainTipMem(cm, branchHeaders)
             fs == writeHeadersToFiles(disk.files, branchHeaders)
         IN  CASE io = "writeFail" ->
                    [cm |-> mem, disk |-> disk, err |-> "writeHeadersToFiles"]
               [] io = "metaFail" ->
                    [cm |-> mem, disk |-> [disk EXCEPT !.files = fs],
                     err |-> "updateMetadataForTip"]
               [] OTHER ->
                    [cm |-> mem,
                     disk |-> [files |-> fs,
                               manifest |-> updateMetadataForTip(mem, disk.manifest)],
                     err |-> "nil"]

-----------------------------------------------------------------------------
(* Admission of a block announcement *)

\* a fork choice that also moves the tip on equal work
IsNewTip_OnTie(currentTip, blockHeader) ==
    \/ currentTip = NilHeader
    \/ blockHeader.ChainWork >= currentTip.ChainWork

\* a fork choice that prefers the greater height
IsNewTip_ByHeight(currentTip, blockHeader) ==
    \/ currentTip = NilHeader
    \/ blockHeader.Height > currentTip.Height

\* currentTip == nil || blockHeader.ChainWork.Cmp(currentTip.ChainWork) > 0
IsNewTip(currentTip, blockHeader) ==
    \/ currentTip = NilHeader
    \/ blockHeader.ChainWork > currentTip.ChainWork

\* the BlockHeader addBlockToChain builds from the announcement
MakeBlockHeader(cm, header, height) ==
    LET parentHeader == GetHeaderByHash(cm, header.PrevHash)
    IN  [hash |-> header.hash, PrevHash |-> header.PrevHash, Bits |-> header.Bits,
         Height |-> height,
         ChainWork |-> parentHeader.ChainWork + CalculateWork(header.Bits)]

\* an admission without fork choice: every admitted header is made the tip
addBlockToChain_AlwaysTip(cm, disk, header, height, io) ==
    LET blockHeader == MakeBlockHeader(cm, header, height)
    IN  SetChainTip(AddHeader(cm, blockHeader), disk, <<blockHeader>>, io)

addBlockToChain(cm, disk, header, height, io) ==
    LET blockHeader == MakeBlockHeader(cm, header, height)
        added == AddHeader(cm, blockHeader)
    IN  IF IsNewTip(GetTip(added), blockHeader)
        THEN SetChainTip(added, disk, <<blockHeader>>, io)
        ELSE [cm |-> added, disk |-> disk, err |-> "nil"]

-----------------------------------------------------------------------------
(* Construction: NewChainManager -> loadFromLocalFiles *)

EmptyManager == [byHeight |-> <<>>, byHash |-> [h \in {} |-> NilHeader], tip |-> NilHeader]

\* work of the headers lo..hi of a file, summed by halves
RECURSIVE SumWorkRange(_, _, _)
SumWorkRange(raws, lo, hi) ==
    IF lo > hi THEN 0
    ELSE IF lo = hi THEN CalculateWork(raws[lo].Bits)
    ELSE LET mid == (lo + hi) \div 2
         IN  SumWorkRange(raws, lo, mid) + SumWorkRange(raws, mid + 1, hi)

\* work of the first n headers of a file
SumWork(raws, n) == SumWorkRange(raws, 1, n)

\* the BlockHeaders loadFromLocalFiles builds from one file: heights count up
\* from firstHeight, chain work accumulates from prevChainWork, and the
\* header of height 0 gets chain work 0 and adds nothing
LoadedHeaders(raws, firstHeight, prevChainWork) ==
    [i \in 1..Len(raws) |->
        LET height == firstHeight + i - 1
            skipped == IF firstHeight = 0 /\ Len(raws) > 0
                       THEN CalculateWork(raws[1].Bits) ELSE 0
        IN  [hash |-> raws[i].hash, PrevHash |-> raws[i].PrevHash,
             Bits |-> raws[i].Bits, Height |-> height,
             ChainWork |-> IF height = 0 THEN 0
                           ELSE prevChainWork + SumWork(raws, i) - skipped]]

RECURSIVE LoadEntries(_, _, _)
LoadEntries(st, entries, i) ==
    IF i > Len(entries) THEN st
    ELSE LET entry == entries[i]
             raws == FileOf(st.disk.files, entry.FileIndex)
             prevChainWork ==
                 IF entry.FirstHeight = 0 THEN 0
                 ELSE GetHeaderByHeight(st.cm, entry.FirstHeight - 1).ChainWork
             blockHeaders == LoadedHeaders(raws, entry.FirstHeight, prevChainWork)
         IN  LoadEntries(SetChainTip(st.cm, st.disk, blockHeaders, "ok"), entries, i + 1)

loadFromLocalFiles(disk) ==
    IF ~disk.manifest.exists
    THEN [cm |-> EmptyManager, disk |-> disk, err |-> "nil"]
    ELSE LoadEntries([cm |-> EmptyManager, disk |-> disk, err |-> "nil"],
                     disk.manifest.Files, 1)

\* a checkpoint on disk: heights 0..tipHeight in file 0, header of height h has
\* hash h + 1 and links to hash h (genesis links to ZeroHash)
CheckpointDisk(tipHeight) ==
    [files |-> [k \in {0} |-> [i \in 1..(tipHeight + 1) |->
                    [hash |-> i, PrevHash |-> i - 1, Bits |-> EasyBits]]],
     manifest |-> [exists |-> TRUE,
                   Files |-> <<[NewFileEntry(0) EXCEPT !.Count = tipHeight + 1,
                                                       !.LastHash = tipHeight + 1]>>]]

EmptyDisk == [files |-> [k \in {} |-> <<>>], manifest |-> NoManifest]

\* tip heights of the short checkpoints a manager may find at construction
InitTips == {0, 1}

InitDisks == {EmptyDisk} \cup {CheckpointDisk(t) : t \in InitTips}

-----------------------------------------------------------------------------
(* The state machine *)

\* the handler is in no backfill and has finished none
NoWalk ==
    [active |-> FALSE, hops |-> 0, gap |-> 0, anchor |-> ZeroHash, bits |-> 0,
     done |-> 0]

\* no ChainTracker call has returned yet
NoAnswer ==
    [op |-> "none", root |-> ZeroHash, height |-> 0, valid |-> FALSE,
     value |-> 0, err |-> "nil"]

\* the goroutines that use the manager: the message handler of Start, one serving
\* HTTP requests, and the one that constructs, starts and stops the manager
Goroutines == {"handler", "http", "main"}

\* sync.RWMutex, zero value: no writer, no reader, nobody blocked
FreeLock ==
    [writer |-> "none", readers |-> [g \in Goroutines |-> 0], queue |-> <<>>]

\* no goroutine is inside a call
NoCalls == [g \in Goroutines |-> <<>>]

\* the server has answered no request
NoRequest ==
    [op |-> "none", height |-> 0, count |-> 0, got |-> <<>>, cache |-> "",
     tipRead |-> 0, done |-> TRUE]

\* NewChainManager of chainmanager.go ran on sound storage and returned a manager
SoundBoot == [variant |-> "chainmanager", damage |-> "none", handed |-> TRUE]

Store == [byHeight |-> byHeight, byHash |-> byHash, tip |-> tip]
Disk == [files |-> files, manifest |-> manifest]

\* NewChainManager on a storage path holding disk
NewChainManager(disk) ==
    LET st == loadFromLocalFiles(disk)
    IN  /\ byHeight = st.cm.byHeight
        /\ byHash = st.cm.byHash
        /\ tip = st.cm.tip
        /\ files = st.disk.files
        /\ manifest = st.disk.manifest
        /\ announced = 0
        /\ wrong = 0
        /\ lastErr = st.err
        /\ p2pClient = FALSE
        /\ msgChan = NilChan
        /\ ctxDone = FALSE
        /\ loop = "none"
        /\ consumer = "none"
        /\ walk = NoWalk
        /\ synced = FALSE
        /\ answer = NoAnswer
        /\ boot = SoundBoot
        /\ handlers = <<>>
        /\ req = NoRequest
        /\ mu = FreeLock
        /\ calls = NoCalls

\* NewChainClient: nothing started, no tip known
NewChainClient ==
    /\ cc = [started |-> FALSE, msgChan |-> NilChan, currentTip |-> ZeroHash,
             lastHash |-> ZeroHash, ctxDone |-> FALSE,
             starts |-> 0, stops |-> 0, cancelFunc |-> 0, cancelled |-> {},
             retired |-> <<>>, readers |-> <<>>, panic |-> "none"]
    /\ stream = 0
    /\ seen = <<>>

Init == (\E disk \in InitDisks : NewChainManager(disk)) /\ NewChainClient

InitLong == NewChainManager(CheckpointDisk(LongTip)) /\ NewChainClient

\* ChainManager.Start(ctx): the P2P client is created, the tip channel is made
\* and handed to the consumer, the handler goroutine starts
Start ==
    /\ ~p2pClient
    /\ p2pClient' = TRUE
    /\ msgChan' = MakeChan
    /\ loop' = "running"
    /\ consumer' = "ranging"
    /\ UNCHANGED <<chainVars, ctxDone, walk, sseVars, trackerVars, bootVars, lockVars>>

NewHash(n) == LongTip + 10 + n

\* raw headers an announcement may carry whose parent is in byHash: a header
\* already in byHash, or a new header on one of parents
Announceable(parents) ==
    {RawHeader(byHash[h]) : h \in {k \in parents : byHash[k].PrevHash \in DOMAIN byHash}}
    \cup (IF announced < MaxNew
          THEN {[hash |-> NewHash(announced), PrevHash |-> p, Bits |-> b] :
                    p \in parents, b \in BitsChoices}
          ELSE {})

\* the claimed height is parent.Height + d
HeightOffsets == {d \in {0, 1, 2} : d = 1 \/ wrong < MaxWrong}

\* handleBlockMessage(header, height) for a well-formed message whose parent
\* is in byHash, the filesystem doing io
Admit(header, height, io) ==
    LET st == addBlockToChain(Store, Disk, header, height, io)
    IN  /\ byHeight' = st.cm.byHeight
        /\ byHash' = st.cm.byHash
        /\ tip' = st.cm.tip
        /\ files' = st.disk.files
        /\ manifest' = st.disk.manifest
        /\ announced' = IF header.hash \in DOMAIN byHash THEN announced
                        ELSE announced + 1
        /\ wrong' = IF height = byHash[header.PrevHash].Height + 1 THEN wrong
                    ELSE wrong + 1
        /\ lastErr' = st.err
        /\ UNCHANGED <<p2pVars, sseVars, trackerVars, bootVars, lockVars>>

\* case msg := <-msgChan of the handler goroutine
HandleBlockMessage ==
    /\ loop = "running"
    /\ \E header \in Announceable(DOMAIN byHash), d \in HeightOffsets :
           Admit(header, byHash[header.PrevHash].Height + d, "ok")

Next == Start \/ HandleBlockMessage

Spec == Init /\ [][Next]_vars

\* heights the environment announces at in a long chain: near genesis or near the tip
Near(height) ==
    \/ height <= ForkWindow
    \/ height + ForkWindow >= GetHeight(Store)

KnownNear == {h \in DOMAIN byHash : Near(byHash[h].Height)}

\* announcements near genesis or near the tip that claim their true height
HandleBlockMessageNear ==
    /\ loop = "running"
    /\ \E header \in Announceable(KnownNear) :
           Admit(header, byHash[header.PrevHash].Height + 1, "ok")

NextLong == Start \/ HandleBlockMessageNear

\* the same machine started from a long checkpoint, where pruning has work to do
SpecLong == InitLong /\ [][NextLong]_vars

-----------------------------------------------------------------------------
(* Cancellation of the context passed to ChainManager.Start *)

\* a handler goroutine that returns without closing the tip channel
CloseChan_Forgotten(ch) == ch

\* close(cm.msgChan)
CloseChan(ch) == [ch EXCEPT !.closed = TRUE]

\* the caller cancels the context it passed (or will pass) to Start
Cancel ==
    /\ ~ctxDone
    /\ ctxDone' = TRUE
    /\ UNCHANGED <<chainVars, p2pClient, msgChan, loop, consumer, walk, sseVars,
                   trackerVars, bootVars, lockVars>>

\* case <-ctx.Done() of the handler goroutine: close(cm.msgChan); return
LoopExit ==
    /\ loop = "running" /\ ctxDone
    /\ msgChan' = CloseChan(msgChan)
    /\ loop' = "exited"
    /\ UNCHANGED <<chainVars, p2pClient, ctxDone, consumer, walk, sseVars, trackerVars, bootVars, lockVars>>

\* for tip := range tipChanges: the consumer takes a buffered value, or leaves
\* the loop when the channel is closed and empty
ConsumerRange ==
    /\ consumer = "ranging"
    /\ \/ Len(msgChan.buf) > 0
       \/ msgChan.closed
    /\ IF Len(msgChan.buf) > 0
       THEN msgChan' = [msgChan EXCEPT !.buf = Tail(@)] /\ consumer' = consumer
       ELSE msgChan' = msgChan /\ consumer' = "done"
    /\ UNCHANGED <<chainVars, p2pClient, ctxDone, loop, walk, sseVars, trackerVars, bootVars, lockVars>>

NextCancel ==
    Start \/ HandleBlockMessageNear \/ Cancel \/ LoopExit \/ ConsumerRange

SpecCancel == Init /\ [][NextCancel]_vars

\* the select of the handler goroutine picks a ready case at random, so the
\* Done case is taken eventually; the consumer's loop keeps running
SpecCancelFair ==
    SpecCancel /\ WF_vars(LoopExit) /\ WF_vars(ConsumerRange)

-----------------------------------------------------------------------------
(* ChainClient: the SSE reader and its tip channel.  The k-th distinct tip *)
(* the server streams is identified by the hash k.                         *)

\* distinct tips the server streams
MaxStream == 5

\* a send that puts the value in front of what the channel still holds
TrySend_Async(ch, v) == [ch EXCEPT !.buf = <<v>> \o @]

\* select { case cc.msgChan <- &blockHeader: ... default: }: the value is
\* buffered when the channel has room and dropped otherwise
TrySend(ch, v) ==
    IF Len(ch.buf) < ChanCap THEN [ch EXCEPT !.buf = Append(@, v)] ELSE ch

\* a plain send cc.msgChan <- &blockHeader waits for room in the channel
CanPublish_Blocking(ch) == Len(ch.buf) < ChanCap

\* the select of readSSE has a default case: it never waits for the channel
CanPublish(ch) == TRUE

\* lastHash != nil && lastHash.IsEqual(&blockHeader.Hash)
IsRepeat(lastHash, hash) == lastHash # ZeroHash /\ lastHash = hash

\* the data lines the stream may deliver next: the last tip again, or the next one
NextLines ==
    {h \in {stream, stream + 1} : h >= 1 /\ h <= MaxStream}

\* ChainClient.Start: the channel is made, the stream is opened, readSSE runs
ClientStart ==
    /\ ~cc.started /\ ~cc.msgChan.made
    /\ cc' = [cc EXCEPT !.started = TRUE, !.msgChan = MakeChan]
    /\ UNCHANGED <<chainVars, p2pVars, trackerVars, bootVars, lockVars, stream, seen>>

\* one turn of the loop of readSSE on a data line carrying tip hash
ReadSSE ==
    /\ cc.started /\ ~cc.ctxDone
    /\ \E hash \in NextLines :
          /\ ~IsRepeat(cc.lastHash, hash)
          /\ CanPublish(cc.msgChan)
          /\ cc' = [cc EXCEPT !.lastHash = hash, !.currentTip = hash,
                              !.msgChan = TrySend(@, hash)]
          /\ stream' = hash
    /\ UNCHANGED <<chainVars, p2pVars, trackerVars, bootVars, lockVars, seen>>

\* readSSE returns (context done, or the stream ended): deferred close(cc.msgChan)
ClientExit ==
    /\ cc.started
    /\ cc' = [cc EXCEPT !.started = FALSE, !.msgChan.closed = TRUE]
    /\ UNCHANGED <<chainVars, p2pVars, trackerVars, bootVars, lockVars, stream, seen>>

\* ChainClient.Stop, or the caller cancelling its context
ClientCancel ==
    /\ cc.msgChan.made /\ ~cc.ctxDone
    /\ cc' = [cc EXCEPT !.ctxDone = TRUE]
    /\ UNCHANGED <<chainVars, p2pVars, trackerVars, bootVars, lockVars, stream, seen>>

\* the consumer takes the next value from the channel ChainClient.Start returned
ClientRecv ==
    /\ cc.msgChan.made /\ Len(cc.msgChan.buf) > 0
    /\ seen' = Append(seen, Head(cc.msgChan.buf))
    /\ cc' = [cc EXCEPT !.msgChan.buf = Tail(@)]
    /\ UNCHANGED <<chainVars, p2pVars, trackerVars, bootVars, lockVars, stream>>

InitSSE == NewChainManager(EmptyDisk) /\ NewChainClient

NextSSE == ClientStart \/ ReadSSE \/ ClientExit \/ ClientCancel \/ ClientRecv

SpecSSE == InitSSE /\ [][NextSSE]_vars

\* the reader goroutine keeps running; nothing is assumed of the consumer
SpecSSEFair == SpecSSE /\ WF_vars(ReadSSE)

-----------------------------------------------------------------------------
(* ChainClient on a stream whose events may name a tip again.  The server     *)
(* writes the tip it reads at connection time and the tips it broadcasts to   *)
(* the same connection, so an earlier tip can follow a later one.             *)

\* the hashes the events of the stream carry
EventHashes == {1, 2}

\* one turn of the loop of readSSE on a data line carrying any of the hashes;
\* stream counts the lines read.  A line that repeats lastHash is skipped.
ReadSSEAny ==
    /\ cc.started /\ ~cc.ctxDone
    /\ stream < MaxStream
    /\ \E hash \in EventHashes :
          /\ cc' = IF IsRepeat(cc.lastHash, hash) THEN cc
                   ELSE [cc EXCEPT !.lastHash = hash, !.currentTip = hash,
                                   !.msgChan = TrySend(@, hash)]
          /\ stream' = stream + 1
    /\ UNCHANGED <<chainVars, p2pVars, trackerVars, bootVars, lockVars, seen>>

NextStream == ClientStart \/ ReadSSEAny \/ ClientExit \/ ClientCancel \/ ClientRecv

SpecStream == InitSSE /\ [][NextStream]_vars

-----------------------------------------------------------------------------
(* ChainTracker interface of the manager that carries a synced flag *)

\* header.MerkleRoot: the header hash commits to the root, so the root of a
\* header is named by the header's hash
MerkleRoot(header) == header.hash

Answer(op, root, height, valid, value, err) ==
    [op |-> op, root |-> root, height |-> height, valid |-> valid,
     value |-> value, err |-> err]

\* an IsValidRootForHeight that looks the header up without asking cm.synced
IsValidRootForHeight_Unchecked(cm, isSynced, root, height) ==
    LET header == GetHeaderByHeight(cm, height)
    IN  IF header = NilHeader
        THEN Answer("IsValidRootForHeight", root, height, FALSE, 0, "ErrHeaderNotFound")
        ELSE Answer("IsValidRootForHeight", root, height, MerkleRoot(header) = root, 0, "nil")

\* if !cm.synced { return false, ErrNotSynced }; then the lookup by height
IsValidRootForHeight(cm, isSynced, root, height) ==
    IF ~isSynced
    THEN Answer("IsValidRootForHeight", root, height, FALSE, 0, "ErrNotSynced")
    ELSE LET header == GetHeaderByHeight(cm, height)
         IN  IF header = NilHeader
             THEN Answer("IsValidRootForHeight", root, height, FALSE, 0, "ErrHeaderNotFound")
             ELSE Answer("IsValidRootForHeight", root, height, MerkleRoot(header) = root, 0, "nil")

\* if !cm.synced { return 0, ErrNotSynced }; return cm.store.GetHeight(), nil
CurrentHeight(cm, isSynced) ==
    IF ~isSynced
    THEN Answer("CurrentHeight", ZeroHash, 0, FALSE, 0, "ErrNotSynced")
    ELSE Answer("CurrentHeight", ZeroHash, 0, FALSE, GetHeight(cm), "nil")

\* cm.SetSynced(b)
SetSynced ==
    /\ \E b \in BOOLEAN : synced' = b
    /\ UNCHANGED <<chainVars, p2pVars, sseVars, answer, bootVars, lockVars>>

\* roots and heights a caller asks about: every stored hash and the zero hash,
\* every indexed height and the one past the end
AskedRoots == {ZeroHash} \cup DOMAIN byHash
AskedHeights == 0..Len(byHeight)

CallIsValidRootForHeight ==
    /\ \E root \in AskedRoots, height \in AskedHeights :
          answer' = IsValidRootForHeight(Store, synced, root, height)
    /\ UNCHANGED <<chainVars, p2pVars, sseVars, synced, bootVars, lockVars>>

CallCurrentHeight ==
    /\ answer' = CurrentHeight(Store, synced)
    /\ UNCHANGED <<chainVars, p2pVars, sseVars, synced, bootVars, lockVars>>

NextTracker ==
    \/ Start
    \/ HandleBlockMessageNear
    \/ SetSynced
    \/ CallIsValidRootForHeight
    \/ CallCurrentHeight

SpecTracker == Init /\ [][NextTracker]_vars

-----------------------------------------------------------------------------
(* Branches handed to SetChainTip, and a restart on the same storage path *)

\* a branch of n new headers on the best-chain header of height f, ordered
\* oldest to newest, with the heights and chain work of its position
BranchOn(f, bitsOf) ==
    LET parent == GetHeaderByHeight(Store, f)
    IN  [i \in DOMAIN bitsOf |->
            [hash |-> NewHash(announced + i - 1),
             PrevHash |-> IF i = 1 THEN parent.hash ELSE NewHash(announced + i - 2),
             Bits |-> bitsOf[i],
             Height |-> f + i,
             ChainWork |-> parent.ChainWork + SumWork([j \in DOMAIN bitsOf |-> [Bits |-> bitsOf[j]]], i)]]

\* cm.SetChainTip(branchHeaders) with a branch whose parent is on the chain
ApplyBranch ==
    /\ tip # NilHeader
    /\ \E f \in 0..(Len(byHeight) - 1), n \in 1..(MaxNew - announced) :
         \E bitsOf \in [1..n -> BitsChoices] :
            /\ GetHeaderByHeight(Store, f) # NilHeader
            /\ LET st == SetChainTip(Store, Disk, BranchOn(f, bitsOf), "ok")
               IN  /\ byHeight' = st.cm.byHeight
                   /\ byHash' = st.cm.byHash
                   /\ tip' = st.cm.tip
                   /\ files' = st.disk.files
                   /\ manifest' = st.disk.manifest
                   /\ announced' = announced + n
                   /\ lastErr' = st.err
    /\ UNCHANGED <<wrong, p2pVars, sseVars, trackerVars, bootVars, lockVars>>

\* the process ends and NewChainManager runs again on the same storage path
Restart ==
    /\ LET st == loadFromLocalFiles(Disk)
       IN  /\ byHeight' = st.cm.byHeight
           /\ byHash' = st.cm.byHash
           /\ tip' = st.cm.tip
           /\ files' = st.disk.files
           /\ manifest' = st.disk.manifest
           /\ lastErr' = st.err
    /\ p2pClient' = FALSE
    /\ msgChan' = NilChan
    /\ ctxDone' = FALSE
    /\ loop' = "none"
    /\ consumer' = "none"
    /\ walk' = NoWalk
    /\ synced' = FALSE
    /\ answer' = NoAnswer
    /\ boot' = SoundBoot
    /\ handlers' = <<>>
    /\ req' = NoRequest
    /\ mu' = FreeLock
    /\ calls' = NoCalls
    /\ UNCHANGED <<announced, wrong, sseVars>>

NextPersist == Start \/ HandleBlockMessageNear \/ ApplyBranch \/ Restart

SpecPersist == Init /\ [][NextPersist]_vars

-----------------------------------------------------------------------------
(* Announcements that claim a height in the second header file *)

\* the first height of the second header file, which a block message may claim
FarHeights == {FileSpan}

\* handleBlockMessage for a message whose Height field lies in the second
\* file, whatever the height of the parent
HandleBlockMessageFar ==
    /\ loop = "running"
    /\ wrong < MaxWrong
    /\ \E header \in Announceable(KnownNear), height \in FarHeights :
           /\ height # byHash[header.PrevHash].Height + 1
           /\ Admit(header, height, "ok")

NextFar == Start \/ HandleBlockMessageNear \/ HandleBlockMessageFar

SpecFar == Init /\ [][NextFar]_vars

-----------------------------------------------------------------------------
(* Admissions on a filesystem that may fail *)

\* handleBlockMessage with true heights, the filesystem doing any of IOOutcomes
HandleBlockMessageIO ==
    /\ loop = "running"
    /\ \E header \in Announceable(KnownNear), io \in IOOutcomes :
           Admit(header, byHash[header.PrevHash].Height + 1, io)

NextIO == Start \/ HandleBlockMessageIO

SpecIO == Init /\ [][NextIO]_vars

-----------------------------------------------------------------------------
(* The manager built on HeaderStore: ProcessHeader and its orphans *)

\* HeaderStore.AddHeader for a hash not yet stored: the header is stored under
\* its hash and at its height, and becomes the tip if it is higher
StoreAddHeader(cm, header) ==
    LET oldLen == Len(cm.byHeight)
        newLen == IF oldLen <= header.Height THEN header.Height + 1 ELSE oldLen
    IN  [byHeight |-> [k \in 1..newLen |->
                          IF k = header.Height + 1 THEN header.hash
                          ELSE IF k <= oldLen THEN cm.byHeight[k] ELSE ZeroHash],
         byHash |-> PutHash(cm.byHash, header),
         tip |-> IF cm.tip = NilHeader \/ header.Height > cm.tip.Height
                 THEN header ELSE cm.tip]

\* HeaderStore.AddOrphan: stored under its hash only
AddOrphan(cm, header) == [cm EXCEPT !.byHash = PutHash(@, header)]

\* handleOrphan: height 0 and chain work 0 until the parent is found
handleOrphan(cm, header) ==
    [cm |-> AddOrphan(cm, [hash |-> header.hash, PrevHash |-> header.PrevHash,
                           Bits |-> header.Bits, Height |-> 0, ChainWork |-> 0]),
     err |-> "nil"]

ProcessHeader(cm, header) ==
    IF header.hash \in DOMAIN cm.byHash
    THEN [cm |-> cm, err |-> "ErrDuplicateHeader"]
    ELSE IF header.PrevHash \notin DOMAIN cm.byHash
    THEN handleOrphan(cm, header)
    ELSE LET prevHeader == cm.byHash[header.PrevHash]
             blockHeader == [hash |-> header.hash, PrevHash |-> header.PrevHash,
                             Bits |-> header.Bits,
                             Height |-> prevHeader.Height + 1,
                             ChainWork |-> prevHeader.ChainWork
                                           + CalculateWork(header.Bits)]
         IN  [cm |-> StoreAddHeader(cm, blockHeader), err |-> "nil"]

\* hash is target or has target among its stored ancestry, n links deep
RECURSIVE DescendsFrom(_, _, _)
DescendsFrom(hash, target, n) ==
    \/ hash = target
    \/ /\ n > 0
       /\ hash \in DOMAIN byHash
       /\ DescendsFrom(byHash[hash].PrevHash, target, n - 1)

\* headers handed to ProcessHeader: a stored header again, or a new header
\* whose parent is stored (and is no descendant of it: hashes admit no cycle)
\* or is the header the network produces next
Processable ==
    {RawHeader(byHash[h]) : h \in DOMAIN byHash}
    \cup (IF announced < MaxNew
          THEN {[hash |-> NewHash(announced), PrevHash |-> p, Bits |-> b] :
                    p \in {k \in KnownNear :
                              ~DescendsFrom(k, NewHash(announced), MaxNew + 1)}
                          \cup {NewHash(announced + 1)},
                    b \in BitsChoices}
          ELSE {})

CallProcessHeader ==
    /\ \E header \in Processable :
          LET st == ProcessHeader(Store, header)
          IN  /\ byHeight' = st.cm.byHeight
              /\ byHash' = st.cm.byHash
              /\ tip' = st.cm.tip
              /\ lastErr' = st.err
              /\ announced' = IF header.hash \in DOMAIN byHash THEN announced
                              ELSE announced + 1
    /\ UNCHANGED <<files, manifest, wrong, p2pVars, sseVars, trackerVars, bootVars, lockVars>>

NextStore == CallProcessHeader \/ SetSynced

\* the loader of this manager leaves the same store from a checkpoint
SpecStore == Init /\ [][NextStore]_vars

-----------------------------------------------------------------------------
(* Block messages as they arrive: JSON text carrying a hex header *)

\* a block header is 80 bytes
HeaderSize == 80

\* a message is what its decoding finds: whether the JSON unmarshals, whether
\* the Header field is hex, how many bytes it decodes to, whether those bytes
\* parse as a header, and the header and Height it then carries
MessagesOf(header, height) ==
    {[json |-> j, hex |-> x, size |-> n, parses |-> ps,
      header |-> header, height |-> height] :
        j \in BOOLEAN, x \in BOOLEAN,
        n \in {HeaderSize - 1, HeaderSize, HeaderSize + 1}, ps \in BOOLEAN}

Malformed(msg) == ~msg.json \/ ~msg.hex \/ msg.size # HeaderSize \/ ~msg.parses

DecodeErrors == {"unmarshal", "decode header hex", "invalid header size", "parse header"}

\* a handler that parses whatever the hex decodes to, without the length check
handleBlockMessage_AnySize(cm, disk, msg, io) ==
    IF ~msg.json THEN [cm |-> cm, disk |-> disk, err |-> "unmarshal"]
    ELSE IF ~msg.hex THEN [cm |-> cm, disk |-> disk, err |-> "decode header hex"]
    ELSE IF ~msg.parses /\ msg.size = HeaderSize
    THEN [cm |-> cm, disk |-> disk, err |-> "parse header"]
    ELSE IF GetHeaderByHash(cm, msg.header.PrevHash) # NilHeader
    THEN addBlockToChain(cm, disk, msg.header, msg.height, io)
    ELSE [cm |-> cm, disk |-> disk, err |-> "crawlBackAndMerge"]

\* handleBlockMessage up to the parent lookup; with an unknown parent the
\* handler goes on in crawlBackAndMerge
handleBlockMessage(cm, disk, msg, io) ==
    IF ~msg.json THEN [cm |-> cm, disk |-> disk, err |-> "unmarshal"]
    ELSE IF ~msg.hex THEN [cm |-> cm, disk |-> disk, err |-> "decode header hex"]
    ELSE IF msg.size # HeaderSize
    THEN [cm |-> cm, disk |-> disk, err |-> "invalid header size"]
    ELSE IF ~msg.parses THEN [cm |-> cm, disk |-> disk, err |-> "parse header"]
    ELSE IF GetHeaderByHash(cm, msg.header.PrevHash) # NilHeader
    THEN addBlockToChain(cm, disk, msg.header, msg.height, io)
    ELSE [cm |-> cm, disk |-> disk, err |-> "crawlBackAndMerge"]

\* block messages about headers near genesis or the tip, with true heights
RawMessages ==
    UNION {MessagesOf(header, byHash[header.PrevHash].Height + 1) :
              header \in Announceable(KnownNear)}

\* case msg := <-msgChan for a message as it arrives
HandleBlockMessageRaw ==
    /\ loop = "running"
    /\ \E msg \in RawMessages :
          LET st == handleBlockMessage(Store, Disk, msg, "ok")
          IN  /\ byHeight' = st.cm.byHeight
              /\ byHash' = st.cm.byHash
              /\ tip' = st.cm.tip
              /\ files' = st.disk.files
              /\ manifest' = st.disk.manifest
              /\ announced' = IF msg.header.hash \in DOMAIN st.cm.byHash
                                 /\ msg.header.hash \notin DOMAIN byHash
                              THEN announced + 1 ELSE announced
              /\ lastErr' = st.err
    /\ UNCHANGED <<wrong, p2pVars, sseVars, trackerVars, bootVars, lockVars>>

NextRaw == Start \/ HandleBlockMessageRaw

SpecRaw == Init /\ [][NextRaw]_vars

-----------------------------------------------------------------------------
(* Remote backfill: crawlBackAndMerge -> SyncFromRemoteTip.  The peer is a  *)
(* block lookup by hash; the announced header lies gap headers above a      *)
(* stored header, the anchor.                                               *)

\* the walk gives up after this many fetched blocks
BackfillLimit == 2016

\* headers between the anchor and the announced header, the latter included:
\* short gaps, and a gap longer than the walk may go
Gaps == {2, 3, BackfillLimit + 2}

\* the i-th header above the anchor on the peer's chain
FillHash(i) == NewHash(MaxNew) + i

\* the gathered branch, oldest first, chain work seeded by the stored parent
FillBranch(w) ==
    LET parent == byHash[w.anchor]
    IN  [i \in 1..w.gap |->
            [hash |-> FillHash(i),
             PrevHash |-> IF i = 1 THEN w.anchor ELSE FillHash(i - 1),
             Bits |-> w.bits,
             Height |-> parent.Height + i,
             ChainWork |-> parent.ChainWork + i * CalculateWork(w.bits)]]

\* a walk without a bound
WalkExhausted_Never(hops) == FALSE

\* the safety limit of the walk
WalkExhausted(hops) == hops >= BackfillLimit

\* the walk has fetched a header whose PrevHash is in the store
Connected(w) == w.hops = w.gap

\* handleBlockMessage finds the parent unknown and starts the walk
BackfillStart ==
    /\ loop = "running"
    /\ ~walk.active
    /\ walk.done = 0
    /\ \E anchor \in KnownNear, gap \in Gaps, bits \in BitsChoices :
          walk' = [active |-> TRUE, hops |-> 0, gap |-> gap, anchor |-> anchor,
                   bits |-> bits, done |-> 0]
    /\ UNCHANGED <<chainVars, p2pClient, msgChan, ctxDone, loop, consumer,
                   sseVars, trackerVars, bootVars, lockVars>>

\* the walk ends with an error: nothing is applied
BackfillFails(hops) ==
    /\ walk' = [walk EXCEPT !.active = FALSE, !.hops = hops, !.done = 1]
    /\ lastErr' = "ErrBrokenChain"
    /\ UNCHANGED <<byHeight, byHash, tip, files, manifest, announced, wrong>>

\* the walk has met the store: the branch is applied if it has more work
BackfillMerges(hops) ==
    LET branch == FillBranch(walk)
        st == IF IsNewTip(tip, branch[Len(branch)])
              THEN SetChainTip(Store, Disk, branch, "ok")
              ELSE [cm |-> Store, disk |-> Disk, err |-> "nil"]
    IN  /\ walk' = [walk EXCEPT !.active = FALSE, !.hops = hops, !.done = 1]
        /\ byHeight' = st.cm.byHeight
        /\ byHash' = st.cm.byHash
        /\ tip' = st.cm.tip
        /\ files' = st.disk.files
        /\ manifest' = st.disk.manifest
        /\ lastErr' = st.err
        /\ UNCHANGED <<announced, wrong>>

\* one HTTP request of the walk: it fails, or it returns the next header down
BackfillFetch ==
    /\ walk.active
    /\ ~WalkExhausted(walk.hops)
    /\ \E ok \in BOOLEAN :
          IF ~ok THEN BackfillFails(walk.hops)
          ELSE IF walk.hops + 1 = walk.gap THEN BackfillMerges(walk.hops + 1)
          ELSE /\ walk' = [walk EXCEPT !.hops = walk.hops + 1]
               /\ UNCHANGED chainVars
    /\ UNCHANGED <<p2pClient, msgChan, ctxDone, loop, consumer, sseVars, trackerVars, bootVars, lockVars>>

\* the walk would exceed the limit
BackfillGiveUp ==
    /\ walk.active
    /\ WalkExhausted(walk.hops)
    /\ BackfillFails(walk.hops)
    /\ UNCHANGED <<p2pClient, msgChan, ctxDone, loop, consumer, sseVars, trackerVars, bootVars, lockVars>>

NextFill == Start \/ BackfillStart \/ BackfillFetch \/ BackfillGiveUp

SpecFill == Init /\ [][NextFill]_vars

\* the handler goroutine keeps running while it is in a walk
SpecFillFair == SpecFill /\ WF_vars(BackfillFetch) /\ WF_vars(BackfillGiveUp)

-----------------------------------------------------------------------------
(* Construction on damaged storage, by both NewChainManager variants *)

\* what is wrong with the local files when the process starts: nothing, the
\* manifest is no JSON, or the last header file the manifest names is missing
\* or has a size that is no multiple of 80
Damages == {"none", "manifest", "missing", "size"}

\* the damage a storage path can have
DamagesOf(disk) ==
    IF ~disk.manifest.exists THEN {"none"}
    ELSE IF Len(disk.manifest.Files) = 0 THEN {"none", "manifest"}
    ELSE Damages

\* loadFromLocalFiles of the manager with byHeight/byHash: the entries before
\* the damaged file are loaded and applied, then the error is returned
loadFromLocalFilesOn(disk, damage) ==
    LET fresh == [cm |-> EmptyManager, disk |-> disk, err |-> "nil"]
    IN  IF ~disk.manifest.exists THEN fresh
        ELSE IF damage = "manifest" THEN [fresh EXCEPT !.err = "parseMetadata"]
        ELSE IF damage \in {"missing", "size"}
        THEN [LoadEntries(fresh, SubSeq(disk.manifest.Files, 1,
                                        Len(disk.manifest.Files) - 1), 1)
                 EXCEPT !.err = "loadHeadersFromFile"]
        ELSE loadFromLocalFiles(disk)

\* the loop over one file of the loader built on HeaderStore: chain work from
\* the stored header one below, then store.AddHeader
RECURSIVE StoreLoadFile(_, _, _, _)
StoreLoadFile(st, raws, firstHeight, i) ==
    IF i > Len(raws) \/ st.err # "nil" THEN st
    ELSE LET height == firstHeight + i - 1
             prevHeader == GetHeaderByHeight(st.cm, height - 1)
             blockHeader ==
                 [hash |-> raws[i].hash, PrevHash |-> raws[i].PrevHash,
                  Bits |-> raws[i].Bits, Height |-> height,
                  ChainWork |-> IF height = 0 THEN 0
                                ELSE prevHeader.ChainWork + CalculateWork(raws[i].Bits)]
         IN  IF raws[i].hash \in DOMAIN st.cm.byHash
             THEN [st EXCEPT !.err = "ErrDuplicateHeader"]
             ELSE StoreLoadFile([st EXCEPT !.cm = StoreAddHeader(@, blockHeader)],
                                raws, firstHeight, i + 1)

RECURSIVE StoreLoadEntries(_, _, _)
StoreLoadEntries(st, entries, i) ==
    IF i > Len(entries) \/ st.err # "nil" THEN st
    ELSE StoreLoadEntries(StoreLoadFile(st, FileOf(st.disk.files, entries[i].FileIndex),
                                        entries[i].FirstHeight, 1),
                          entries, i + 1)

\* loadFromLocalFiles of the manager built on HeaderStore
StoreLoadFromLocalFiles(disk, damage) ==
    LET fresh == [cm |-> EmptyManager, disk |-> disk, err |-> "nil"]
    IN  IF ~disk.manifest.exists THEN fresh
        ELSE IF damage = "manifest" THEN [fresh EXCEPT !.err = "parseMetadata"]
        ELSE IF damage \in {"missing", "size"}
        THEN [StoreLoadEntries(fresh, SubSeq(disk.manifest.Files, 1,
                                             Len(disk.manifest.Files) - 1), 1)
                 EXCEPT !.err = "loadHeadersFromFile"]
        ELSE StoreLoadEntries(fresh, disk.manifest.Files, 1)

\* NewChainManager of chainmanager.go: return nil, err when the loader failed
NewChainManagerOn(disk, damage) ==
    LET st == loadFromLocalFilesOn(disk, damage)
    IN  IF st.err # "nil"
        THEN [cm |-> EmptyManager, disk |-> st.disk, err |-> st.err, handed |-> FALSE]
        ELSE [cm |-> st.cm, disk |-> st.disk, err |-> "nil", handed |-> TRUE]

\* NewChainManager of the manager built on HeaderStore: return cm, nil
\* whatever the loader returned
StoreNewChainManager(disk, damage) ==
    LET st == StoreLoadFromLocalFiles(disk, damage)
    IN  [cm |-> st.cm, disk |-> st.disk, err |-> "nil", handed |-> TRUE]

Variants == {"chainmanager", "headerstore"}

\* the process ends; the storage is found with some damage; one of the two
\* NewChainManager runs on it
Reboot ==
    /\ boot = SoundBoot
    /\ \E variant \in Variants, damage \in DamagesOf(Disk) :
          LET r == IF variant = "chainmanager"
                   THEN NewChainManagerOn(Disk, damage)
                   ELSE StoreNewChainManager(Disk, damage)
          IN  /\ byHeight' = r.cm.byHeight
              /\ byHash' = r.cm.byHash
              /\ tip' = r.cm.tip
              /\ files' = r.disk.files
              /\ manifest' = r.disk.manifest
              /\ lastErr' = r.err
              /\ boot' = [variant |-> variant, damage |-> damage, handed |-> r.handed]
    /\ p2pClient' = FALSE
    /\ msgChan' = NilChan
    /\ ctxDone' = FALSE
    /\ loop' = "none"
    /\ consumer' = "none"
    /\ walk' = NoWalk
    /\ synced' = FALSE
    /\ answer' = NoAnswer
    /\ handlers' = <<>>
    /\ req' = NoRequest
    /\ mu' = FreeLock
    /\ calls' = NoCalls
    /\ UNCHANGED <<announced, wrong, sseVars>>

\* Start and the admissions of the manager a sound construction handed out
BootStart == boot = SoundBoot /\ Start

BootAdmit == boot = SoundBoot /\ HandleBlockMessageNear

NextBoot == BootStart \/ BootAdmit \/ Reboot

SpecBoot == Init /\ [][NextBoot]_vars

-----------------------------------------------------------------------------
(* The handler loop under failing messages *)

\* a loop that returns when a message could not be handled
LoopAfter_Exit(err) == IF err # "nil" THEN "exited" ELSE "running"

\* if err := cm.handleBlockMessage(...); err != nil { log.Printf(...) }: the
\* for loop goes on to the next select
LoopAfter(err) == "running"

\* block messages about a header whose parent is not stored and that the
\* peer cannot connect
OrphanMessages ==
    {[json |-> TRUE, hex |-> TRUE, size |-> HeaderSize, parses |-> TRUE,
      header |-> [hash |-> NewHash(MaxNew), PrevHash |-> NewHash(MaxNew + 1),
                  Bits |-> b],
      height |-> h] : b \in BitsChoices, h \in {1, Len(byHeight)}}

\* number of decoding stages a message fails on its own
Faults(msg) ==
    (IF msg.json THEN 0 ELSE 1) + (IF msg.hex THEN 0 ELSE 1)
    + (IF msg.size = HeaderSize THEN 0 ELSE 1) + (IF msg.parses THEN 0 ELSE 1)

\* the messages delivered to the loop: well-formed ones, ones with a single
\* fault, and ones whose parent is unknown
LoopMessages == {msg \in RawMessages : Faults(msg) <= 1} \cup OrphanMessages

\* case msg := <-msgChan, for any message and any behaviour of the filesystem
HandleBlockMessageAny ==
    /\ loop = "running"
    /\ \E msg \in LoopMessages, io \in IOOutcomes :
          LET st == handleBlockMessage(Store, Disk, msg, io)
          IN  /\ byHeight' = st.cm.byHeight
              /\ byHash' = st.cm.byHash
              /\ tip' = st.cm.tip
              /\ files' = st.disk.files
              /\ manifest' = st.disk.manifest
              /\ announced' = IF msg.header.hash \in DOMAIN st.cm.byHash
                                 /\ msg.header.hash \notin DOMAIN byHash
                              THEN announced + 1 ELSE announced
              /\ lastErr' = st.err
              /\ loop' = LoopAfter(st.err)
    /\ UNCHANGED <<wrong, p2pClient, msgChan, ctxDone, consumer, walk, sseVars,
                   trackerVars, bootVars, lockVars>>

NextSurvive == Start \/ HandleBlockMessageAny \/ Cancel \/ LoopExit

SpecSurvive == Init /\ [][NextSurvive]_vars

-----------------------------------------------------------------------------
(* Start, Stop and the handler goroutines.  A goroutine is at its select, or *)
(* between addBlockToChain's tip check and its SetChainTip.                 *)

\* calls of Start that created a goroutine
MaxStarts == 2

\* the goroutine go func() of Start creates, reading the open subscription
NewHandler ==
    [pc |-> "select", pending |-> NilHeader, open |-> TRUE, left |-> 0, closes |-> 0]

\* Start, with the goroutine it creates
StartHandler ==
    /\ ~p2pClient
    /\ Len(handlers) < MaxStarts
    /\ p2pClient' = TRUE
    /\ msgChan' = MakeChan
    /\ loop' = "running"
    /\ consumer' = "ranging"
    /\ handlers' = Append(handlers, NewHandler)
    /\ UNCHANGED <<chainVars, ctxDone, walk, sseVars, trackerVars, boot, req, lockVars>>

\* Stop: the client is closed and forgotten; the goroutine is not told, and
\* its subscription may still hold a message
Stop ==
    /\ p2pClient
    /\ p2pClient' = FALSE
    /\ \E buffered \in BOOLEAN :
          handlers' = [g \in DOMAIN handlers |->
                          IF handlers[g].open
                          THEN [handlers[g] EXCEPT !.open = FALSE,
                                                   !.left = IF buffered THEN 1 ELSE 0]
                          ELSE handlers[g]]
    /\ UNCHANGED <<chainVars, msgChan, ctxDone, loop, consumer, walk, sseVars,
                   trackerVars, boot, req, lockVars>>

\* case msg := <-msgChan can deliver a message to goroutine g
CanReceive(g) ==
    /\ handlers[g].pc = "select"
    /\ handlers[g].open \/ handlers[g].left > 0

\* goroutine g in handleBlockMessage -> addBlockToChain, up to the tip check:
\* the header is added, and SetChainTip is still to come if it has more work
HandlerCheck(g) ==
    /\ CanReceive(g)
    /\ \E header \in Announceable(KnownNear) :
          LET blockHeader == MakeBlockHeader(Store, header,
                                             byHash[header.PrevHash].Height + 1)
              added == AddHeader(Store, blockHeader)
              newTip == IsNewTip(GetTip(added), blockHeader)
          IN  /\ byHeight' = added.byHeight
              /\ byHash' = added.byHash
              /\ tip' = added.tip
              /\ announced' = IF header.hash \in DOMAIN byHash THEN announced
                              ELSE announced + 1
              /\ lastErr' = "nil"
              /\ handlers' = [handlers EXCEPT ![g] =
                     [@ EXCEPT !.pc = IF newTip THEN "set" ELSE "select",
                               !.pending = IF newTip THEN blockHeader ELSE NilHeader,
                               !.left = IF handlers[g].open THEN 0
                                        ELSE handlers[g].left - 1]]
    /\ UNCHANGED <<files, manifest, wrong, p2pVars, sseVars, trackerVars, boot, req, lockVars>>

\* goroutine g in cm.SetChainTip([]*BlockHeader{blockHeader})
HandlerSet(g) ==
    /\ handlers[g].pc = "set"
    /\ LET st == SetChainTip(Store, Disk, <<handlers[g].pending>>, "ok")
       IN  /\ byHeight' = st.cm.byHeight
           /\ byHash' = st.cm.byHash
           /\ tip' = st.cm.tip
           /\ files' = st.disk.files
           /\ manifest' = st.disk.manifest
           /\ lastErr' = st.err
    /\ handlers' = [handlers EXCEPT ![g].pc = "select", ![g].pending = NilHeader]
    /\ UNCHANGED <<announced, wrong, p2pVars, sseVars, trackerVars, boot, req, lockVars>>

HandlerChecks == \E g \in DOMAIN handlers : HandlerCheck(g)

HandlerSets == \E g \in DOMAIN handlers : HandlerSet(g)

NextStop == StartHandler \/ Stop \/ HandlerChecks \/ HandlerSets

SpecStop == Init /\ [][NextStop]_vars

-----------------------------------------------------------------------------
(* The tip channels under Start, Stop and cancellation.  The g-th Start     *)
(* returned the g-th channel; cm.msgChan is the channel of the last Start.  *)

\* some goroutine has closed a channel that was closed already
Panicked == \E g \in DOMAIN handlers : handlers[g].closes > 1

\* case <-ctx.Done() of goroutine g: close(cm.msgChan) closes the channel the
\* field holds now, then the goroutine returns
HandlerExit(g) ==
    /\ ctxDone
    /\ ~Panicked
    /\ handlers[g].pc = "select"
    /\ handlers' = [k \in DOMAIN handlers |->
                       [handlers[k] EXCEPT
                           !.pc = IF k = g THEN "exited" ELSE @,
                           !.closes = IF k = Len(handlers) THEN @ + 1 ELSE @]]
    /\ msgChan' = CloseChan(msgChan)
    /\ loop' = IF \A k \in DOMAIN handlers : k = g \/ handlers[k].pc = "exited"
               THEN "exited" ELSE loop
    /\ UNCHANGED <<chainVars, p2pClient, ctxDone, consumer, walk, sseVars,
                   trackerVars, boot, req, lockVars>>

HandlerExits == \E g \in DOMAIN handlers : HandlerExit(g)

NextClose ==
    StartHandler \/ Stop \/ Cancel \/ HandlerChecks \/ HandlerSets \/ HandlerExits

SpecClose == Init /\ [][NextClose]_vars

-----------------------------------------------------------------------------
(* SetChainTip with a branch below the tip, in both managers *)

\* the tip after the loop of the HeaderStore manager's SetChainTip: a header
\* becomes the tip when it is higher than the tip so far
RECURSIVE StoreTipAfter(_, _, _)
StoreTipAfter(currentTip, branchHeaders, i) ==
    IF i > Len(branchHeaders) THEN currentTip
    ELSE StoreTipAfter(IF currentTip = NilHeader
                          \/ branchHeaders[i].Height > currentTip.Height
                       THEN branchHeaders[i] ELSE currentTip,
                       branchHeaders, i + 1)

\* SetChainTip of the manager built on HeaderStore: no truncation, no pruning
StoreSetChainTip(cm, disk, branchHeaders, io) ==
    IF Len(branchHeaders) = 0 THEN [cm |-> cm, disk |-> disk, err |-> "nil"]
    ELSE LET mem == [WriteBranch(cm, branchHeaders) EXCEPT
                        !.tip = StoreTipAfter(cm.tip, branchHeaders, 1)]
             fs == writeHeadersToFiles(disk.files, branchHeaders)
         IN  CASE io = "writeFail" ->
                    [cm |-> mem, disk |-> disk, err |-> "writeHeadersToFiles"]
               [] io = "metaFail" ->
                    [cm |-> mem, disk |-> [disk EXCEPT !.files = fs],
                     err |-> "updateMetadataForTip"]
               [] OTHER ->
                    [cm |-> mem,
                     disk |-> [files |-> fs,
                               manifest |-> updateMetadataForTip(mem, disk.manifest)],
                     err |-> "nil"]

\* SetChainTip(branchHeaders) of the given manager, with a branch whose parent
\* is on the chain
ApplyBranchBy(variant) ==
    /\ tip # NilHeader
    /\ \E f \in 0..(Len(byHeight) - 1), n \in 1..(MaxNew - announced) :
         \E bitsOf \in [1..n -> BitsChoices] :
            /\ GetHeaderByHeight(Store, f) # NilHeader
            /\ LET st == IF variant = "chainmanager"
                         THEN SetChainTip(Store, Disk, BranchOn(f, bitsOf), "ok")
                         ELSE StoreSetChainTip(Store, Disk, BranchOn(f, bitsOf), "ok")
               IN  /\ byHeight' = st.cm.byHeight
                   /\ byHash' = st.cm.byHash
                   /\ tip' = st.cm.tip
                   /\ files' = st.disk.files
                   /\ manifest' = st.disk.manifest
                   /\ lastErr' = st.err
                   /\ announced' = announced + n
    /\ UNCHANGED <<wrong, p2pVars, sseVars, trackerVars, bootVars, lockVars>>

\* the manager a construction on sound storage handed out calls SetChainTip
ReorgNew ==
    /\ boot = SoundBoot
    /\ ApplyBranchBy("chainmanager")

ReorgStore ==
    /\ boot = [variant |-> "headerstore", damage |-> "none", handed |-> TRUE]
    /\ ApplyBranchBy("headerstore")

NextReorg == Reboot \/ ReorgNew \/ ReorgStore

SpecReorg == Init /\ [][NextReorg]_vars

-----------------------------------------------------------------------------
(* Pruning on a long chain, with messages whose Height field is not the     *)
(* height of the parent plus one                                            *)

\* the Height a message may carry: the genesis height, or the height that
\* extends the best chain
ClaimedHeights == {0, Len(byHeight)}

\* handleBlockMessage for such a message about a header the store already
\* holds near genesis: addBlockToChain takes the height from the message
HandleBlockMessageClaimed ==
    /\ loop = "running"
    /\ wrong < MaxWrong
    /\ \E header \in Announceable(KnownNear), height \in ClaimedHeights :
           /\ header.hash \in DOMAIN byHash
           /\ byHash[header.hash].Height <= ForkWindow
           /\ height # byHash[header.PrevHash].Height + 1
           /\ Admit(header, height, "ok")

NextPrune == Start \/ HandleBlockMessageNear \/ HandleBlockMessageClaimed

SpecPrune == InitLong /\ [][NextPrune]_vars

-----------------------------------------------------------------------------
(* ChainClient over its whole life: Start, Stop, Start again.  The k-th Start *)
(* makes channel k and context k; cc.msgChan is the channel of the last       *)
(* Start, cc.retired holds the ones it replaced.                              *)

\* a readSSE goroutine that has not run yet: closes is the channel its deferred
\* close is bound to, ctx the context it watches
NewReader(k) ==
    [at |-> "new", ctx |-> k, closes |-> 0, lastHash |-> ZeroHash, eof |-> FALSE]

\* the channel the k-th Start made
ChannelOf(k) == IF k = cc.starts THEN cc.msgChan ELSE cc.retired[k]

\* the client with the channel the k-th Start made replaced by ch
WithChannel(client, k, ch) ==
    IF k = client.starts THEN [client EXCEPT !.msgChan = ch]
    ELSE [client EXCEPT !.retired[k] = ch]

\* ChainClient.Start: cc.msgChan and cc.cancelFunc are overwritten, whatever an
\* earlier Start left there, and a readSSE goroutine is created
ClientStartAny ==
    /\ cc.panic = "none"
    /\ cc.starts < MaxStarts
    /\ cc' = [cc EXCEPT !.starts = @ + 1,
                        !.retired = IF cc.starts = 0 THEN @ ELSE Append(@, cc.msgChan),
                        !.msgChan = MakeChan,
                        !.cancelFunc = cc.starts + 1,
                        !.readers = Append(@, NewReader(cc.starts + 1))]
    /\ UNCHANGED <<chainVars, p2pVars, trackerVars, bootVars, lockVars, stream, seen>>

\* ChainClient.Stop: cancelFunc is called when there is one, nil is returned
ClientStop ==
    /\ cc.panic = "none"
    /\ cc.stops <= MaxStarts
    /\ cc' = [cc EXCEPT !.stops = @ + 1,
                        !.cancelled = IF cc.cancelFunc = 0 THEN @
                                      ELSE @ \cup {cc.cancelFunc}]
    /\ UNCHANGED <<chainVars, p2pVars, trackerVars, bootVars, lockVars, stream, seen>>

\* readSSE starts running: 'defer close(cc.msgChan)' evaluates cc.msgChan now
ReaderBegin(i) ==
    /\ cc.panic = "none"
    /\ cc.readers[i].at = "new"
    /\ cc' = [cc EXCEPT !.readers[i].at = "loop", !.readers[i].closes = cc.starts]
    /\ UNCHANGED <<chainVars, p2pVars, trackerVars, bootVars, lockVars, stream, seen>>

\* the server closes the stream of a reader
StreamEnd(i) ==
    /\ cc.panic = "none"
    /\ cc.readers[i].at # "done"
    /\ ~cc.readers[i].eof
    /\ cc' = [cc EXCEPT !.readers[i].eof = TRUE]
    /\ UNCHANGED <<chainVars, p2pVars, trackerVars, bootVars, lockVars, stream, seen>>

\* one turn of the loop of readSSE on a data line: the send is on cc.msgChan as
\* it is now; on a closed channel the send case is ready and panics
ReaderLine(i) ==
    /\ cc.panic = "none"
    /\ cc.readers[i].at = "loop"
    /\ ~cc.readers[i].eof
    /\ cc.readers[i].ctx \notin cc.cancelled
    /\ stream < MaxStream
    /\ \E hash \in EventHashes :
          cc' = IF IsRepeat(cc.readers[i].lastHash, hash) THEN cc
                ELSE IF cc.msgChan.closed
                THEN [cc EXCEPT !.readers[i].lastHash = hash, !.currentTip = hash,
                                !.panic = "send on closed channel"]
                ELSE [cc EXCEPT !.readers[i].lastHash = hash, !.currentTip = hash,
                                !.msgChan = TrySend(@, hash)]
    /\ stream' = stream + 1
    /\ UNCHANGED <<chainVars, p2pVars, trackerVars, bootVars, lockVars, seen>>

\* readSSE returns, its context done or its stream ended: the deferred close
\* runs on the channel it was bound to
ReaderExit(i) ==
    /\ cc.panic = "none"
    /\ cc.readers[i].at = "loop"
    /\ cc.readers[i].eof \/ cc.readers[i].ctx \in cc.cancelled
    /\ LET k == cc.readers[i].closes
           exited == [cc EXCEPT !.readers[i].at = "done"]
       IN  cc' = IF ChannelOf(k).closed
                 THEN [exited EXCEPT !.panic = "close of closed channel"]
                 ELSE WithChannel(exited, k, [ChannelOf(k) EXCEPT !.closed = TRUE])
    /\ UNCHANGED <<chainVars, p2pVars, trackerVars, bootVars, lockVars, stream, seen>>

ReaderBegins == \E i \in 1..Len(cc.readers) : ReaderBegin(i)

StreamEnds == \E i \in 1..Len(cc.readers) : StreamEnd(i)

ReaderLines == \E i \in 1..Len(cc.readers) : ReaderLine(i)

ReaderExits == \E i \in 1..Len(cc.readers) : ReaderExit(i)

NextClient ==
    \/ ClientStartAny
    \/ ClientStop
    \/ ReaderBegins
    \/ StreamEnds
    \/ ReaderLines
    \/ ReaderExits
    \/ ClientRecv

SpecClient == InitSSE /\ [][NextClient]_vars

\* a reader goroutine that can run does run; nothing is assumed of the caller,
\* the server or the consumer
SpecClientFair ==
    /\ SpecClient
    /\ \A i \in 1..MaxStarts :
           /\ WF_vars(i <= Len(cc.readers) /\ ReaderBegin(i))
           /\ WF_vars(i <= Len(cc.readers) /\ ReaderExit(i))

-----------------------------------------------------------------------------
(* The HTTP handlers of the server *)

\* the largest count a request asks for
MaxCount == 3

\* the two 16-bit halves of the uint32 that holds the integer n: n modulo 2^32
Uint32(n) == [hi |-> (n \div (2 ^ 16)) % (2 ^ 16), lo |-> n % (2 ^ 16)]

\* a < b between two uint32 values
Less32(a, b) == a.hi < b.hi \/ (a.hi = b.hi /\ a.lo < b.lo)

\* the header the handlers set: 'if height < tip-100', with tip - 100 computed in
\* uint32
CacheControl(height, tipHeight) ==
    IF Less32(Uint32(height), Uint32(tipHeight - OrphanDepth))
    THEN "public, max-age=3600"
    ELSE "no-cache"

\* the heights requests ask for: the low ones, and the ones around the tip
RequestHeights ==
    {h \in 0..Len(byHeight) : h <= MaxCount \/ h + MaxCount >= Len(byHeight)}

\* HandleGetHeaderByHeight: the tip is read, the header set, the header looked up
HandleGetHeaderByHeight ==
    /\ req.done
    /\ \E height \in RequestHeights :
           LET tipHeight == GetHeight(Store)
               header == GetHeaderByHeight(Store, height)
           IN  req' = [op |-> "byHeight", height |-> height, count |-> 1,
                       got |-> IF header = NilHeader THEN <<>> ELSE <<header>>,
                       cache |-> CacheControl(height, tipHeight),
                       tipRead |-> tipHeight, done |-> TRUE]
    /\ UNCHANGED <<chainVars, p2pVars, sseVars, trackerVars, boot, handlers, lockVars>>

\* HandleGetHeaderByHash: an unknown hash is answered before any header is set
HandleGetHeaderByHash ==
    /\ req.done
    /\ \E hash \in DOMAIN byHash \cup {ZeroHash} :
           LET header == GetHeaderByHash(Store, hash)
               tipHeight == GetHeight(Store)
           IN  req' = IF header = NilHeader
                      THEN [op |-> "byHash", height |-> 0, count |-> 1, got |-> <<>>,
                            cache |-> "", tipRead |-> 0, done |-> TRUE]
                      ELSE [op |-> "byHash", height |-> header.Height, count |-> 1,
                            got |-> <<header>>,
                            cache |-> CacheControl(header.Height, tipHeight),
                            tipRead |-> tipHeight, done |-> TRUE]
    /\ UNCHANGED <<chainVars, p2pVars, sseVars, trackerVars, boot, handlers, lockVars>>

\* HandleGetHeaders up to its loop: the parameters are parsed, the tip is read and
\* the header set
GetHeadersBegin ==
    /\ req.done
    /\ \E height \in RequestHeights, count \in 1..MaxCount :
           LET tipHeight == GetHeight(Store)
           IN  req' = [op |-> "headers", height |-> height, count |-> count,
                       got |-> <<>>, cache |-> CacheControl(height, tipHeight),
                       tipRead |-> tipHeight, done |-> FALSE]
    /\ UNCHANGED <<chainVars, p2pVars, sseVars, trackerVars, boot, handlers, lockVars>>

\* one turn of the loop of HandleGetHeaders: one GetHeaderByHeight, which takes and
\* releases the read lock; an error ends the loop, and so does the count
GetHeadersStep ==
    /\ ~req.done
    /\ LET header == GetHeaderByHeight(Store, req.height + Len(req.got))
       IN  req' = IF header = NilHeader
                  THEN [req EXCEPT !.done = TRUE]
                  ELSE [req EXCEPT !.got = Append(@, header),
                                   !.done = (Len(req.got) + 1 = req.count)]
    /\ UNCHANGED <<chainVars, p2pVars, sseVars, trackerVars, boot, handlers, lockVars>>

NextServe ==
    \/ Start
    \/ HandleBlockMessageNear
    \/ HandleGetHeaderByHeight
    \/ HandleGetHeaderByHash
    \/ GetHeadersBegin
    \/ GetHeadersStep

\* the server answering requests while the handler admits announcements
SpecServe == Init /\ [][NextServe]_vars

-----------------------------------------------------------------------------
(* The store lock: ChainManager.mu and the calls that take it *)

\* one lock operation of a function
LockOp(fn, op) == [fn |-> fn, op |-> op]

\* a function that holds the read lock for its whole body (defer RUnlock)
Reading(fn) == <<LockOp(fn, "RLock"), LockOp(fn, "RUnlock")>>

\* a function that holds the write lock for its whole body (defer Unlock)
Writing(fn) == <<LockOp(fn, "Lock"), LockOp(fn, "Unlock")>>

\* a pruneOrphans that took the lock itself
pruneOrphansOps_Locking == Writing("pruneOrphans")

\* pruneOrphans touches the maps and takes no lock: its caller holds it
pruneOrphansOps == <<>>

\* updateMetadataForTip: GetTip, and GetHeaderByHeight when the tip is above genesis
updateMetadataForTipOps ==
    {Reading("GetTip"), Reading("GetTip") \o Reading("GetHeaderByHeight")}

\* SetChainTip: the maps under the write lock with pruneOrphans inside, then the
\* file writes without the lock, then updateMetadataForTip (not reached when the
\* file write fails)
SetChainTipOps ==
    LET locked == <<LockOp("SetChainTip", "Lock")>> \o pruneOrphansOps
                      \o <<LockOp("SetChainTip", "Unlock")>>
    IN  {locked} \cup {locked \o meta : meta \in updateMetadataForTipOps}

\* addBlockToChain: the parent, AddHeader, the tip, and SetChainTip when the header
\* has more work
addBlockToChainOps ==
    LET stored == Reading("GetHeaderByHash") \o Writing("AddHeader") \o Reading("GetTip")
    IN  {stored} \cup {stored \o set : set \in SetChainTipOps}

\* handleBlockMessage: the parent lookup, then addBlockToChain when it is known
handleBlockMessageOps ==
    {Reading("GetHeaderByHash")}
        \cup {Reading("GetHeaderByHash") \o add : add \in addBlockToChainOps}

\* loadFromLocalFiles for one file of the manifest, and the GetTip that follows it
NewChainManagerOps ==
    {Reading("GetHeaderByHeight") \o set \o Reading("GetTip") : set \in SetChainTipOps}

\* the queries a request makes: the single ones, and HandleGetHeaders with its
\* per-height lookups
RequestOps ==
    {Reading(fn) : fn \in {"GetHeaderByHeight", "GetHeaderByHash", "GetTip", "GetHeight"}}
        \cup {Reading("GetHeight") \o Reading("GetHeaderByHeight"),
              Reading("GetHeight") \o Reading("GetHeaderByHeight")
                  \o Reading("GetHeaderByHeight")}

\* what each goroutine may call
CallsOf(g) ==
    CASE g = "handler" -> handleBlockMessageOps
      [] g = "http" -> RequestOps
      [] g = "main" -> {Writing("Start"), Writing("Stop"), Reading("GetPeers")}
                           \cup NewChainManagerOps

\* the goroutine holds the lock, for writing or for reading
Holds(g) == mu.writer = g \/ mu.readers[g] > 0

\* the goroutine is blocked in Lock or RLock
Blocked(g) == \E i \in 1..Len(mu.queue) : mu.queue[i] = g

\* a goroutine enters one of its calls
Call(g) ==
    /\ calls[g] = <<>>
    /\ \E ops \in CallsOf(g) : calls' = [calls EXCEPT ![g] = ops]
    /\ UNCHANGED <<chainVars, p2pVars, sseVars, trackerVars, bootVars, mu>>

\* Lock or RLock is called: the goroutine blocks until the lock is granted
Request(g) ==
    /\ calls[g] # <<>>
    /\ Head(calls[g]).op \in {"Lock", "RLock"}
    /\ ~Blocked(g)
    /\ mu' = [mu EXCEPT !.queue = Append(@, g)]
    /\ UNCHANGED <<chainVars, p2pVars, sseVars, trackerVars, bootVars, calls>>

\* the lock is granted to the goroutine that has waited longest: a writer when
\* nobody holds it, a reader when no writer holds it; a reader behind a blocked
\* writer waits for that writer
Acquire(g) ==
    /\ mu.queue # <<>>
    /\ Head(mu.queue) = g
    /\ mu.writer = "none"
    /\ IF Head(calls[g]).op = "Lock"
       THEN /\ \A r \in Goroutines : mu.readers[r] = 0
            /\ mu' = [mu EXCEPT !.writer = g, !.queue = Tail(@)]
       ELSE mu' = [mu EXCEPT !.readers[g] = @ + 1, !.queue = Tail(@)]
    /\ calls' = [calls EXCEPT ![g] = Tail(@)]
    /\ UNCHANGED <<chainVars, p2pVars, sseVars, trackerVars, bootVars>>

\* Unlock or RUnlock
Release(g) ==
    /\ calls[g] # <<>>
    /\ Head(calls[g]).op \in {"Unlock", "RUnlock"}
    /\ mu' = IF Head(calls[g]).op = "Unlock"
             THEN [mu EXCEPT !.writer = "none"]
             ELSE [mu EXCEPT !.readers[g] = @ - 1]
    /\ calls' = [calls EXCEPT ![g] = Tail(@)]
    /\ UNCHANGED <<chainVars, p2pVars, sseVars, trackerVars, bootVars>>

Calls == \E g \in Goroutines : Call(g)

Requests == \E g \in Goroutines : Request(g)

Acquires == \E g \in Goroutines : Acquire(g)

Releases == \E g \in Goroutines : Release(g)

NextLock == Calls \/ Requests \/ Acquires \/ Releases

\* a manager constructed on an empty directory, and the goroutines that use it
InitLock == NewChainManager(EmptyDisk) /\ NewChainClient

SpecLock == InitLock /\ [][NextLock]_vars

\* a goroutine that can run does run: one inside a call reaches its next lock
\* operation, and a lock that can be granted is granted
SpecLockFair ==
    /\ SpecLock
    /\ \A g \in Goroutines :
           WF_vars(Request(g)) /\ WF_vars(Acquire(g)) /\ WF_vars(Release(g))

-----------------------------------------------------------------------------
(* Properties of the index *)

\* the hash byHeight holds for a height (1-indexed slice)
HashAt(height) == byHeight[height + 1]

\* every announcement so far claimed the height of its parent plus one
HonestHeights == wrong = 0

\* the record of height i on the best chain links to the entry below it
LinkedAt(i) ==
    /\ HashAt(i) \in DOMAIN byHash
    /\ byHash[HashAt(i)].PrevHash = HashAt(i - 1)
    /\ byHash[HashAt(i)].Height = i

Linkage == \A i \in 1..(Len(byHeight) - 1) : LinkedAt(i)

\* C1: linkage of the best chain.  After every admission that returned without
\* error, every record byHash[byHeight[i]], 1 <= i < len(byHeight), has
\* PrevHash = byHeight[i-1] and Height = i.  Stated here for the runs in which
\* every claimed height was the parent's height plus one.
C1_Linkage == (lastErr = "nil" /\ HonestHeights) => Linkage

\* C4: density.  After every accepted admission len(byHeight) = tip.Height + 1
\* (and the slice is empty while there is no tip).
C4_Density ==
    IF tip = NilHeader THEN Len(byHeight) = 0
    ELSE Len(byHeight) = tip.Height + 1

\* an extension of the loaded chain followed by a reorg to a shorter chain: the
\* first new header sits at height 2 on the loaded tip, the second one is the
\* tip at height 1
C4_Witness ==
    /\ HonestHeights
    /\ announced = 2
    /\ tip.hash = NewHash(1) /\ tip.Height = 1
    /\ NewHash(0) \in DOMAIN byHash
    /\ byHash[NewHash(0)].Height = 2
    /\ Len(byHeight) = 2

\* C5: every entry of byHeight is a hash present in byHash, and never the
\* all-zero placeholder, whatever heights the announcements claimed.
C5_HeightsIndexed ==
    \A k \in 1..Len(byHeight) :
        byHeight[k] # ZeroHash /\ byHeight[k] \in DOMAIN byHash

\* C3: tip consistency.  Between handler calls tip is structurally equal to
\* the record byHash[byHeight[len(byHeight)-1]].
C3_TipConsistent ==
    tip # NilHeader =>
        /\ Len(byHeight) > 0
        /\ byHeight[Len(byHeight)] \in DOMAIN byHash
        /\ byHash[byHeight[Len(byHeight)]] = tip

\* the header of hash h and all its ancestors down to a genesis header lie in
\* byHash (a chain in byHash is no longer than byHash has entries)
RECURSIVE AncestryWithin(_, _)
AncestryWithin(h, n) ==
    /\ n > 0
    /\ h \in DOMAIN byHash
    /\ \/ byHash[h].PrevHash = ZeroHash
       \/ AncestryWithin(byHash[h].PrevHash, n - 1)

AncestryInStore(h) == AncestryWithin(h, Cardinality(DOMAIN byHash))

OnBestChain(h) == \E k \in 1..Len(byHeight) : byHeight[k] = h

\* the last new header is the first header of an alternate branch: it forks
\* from the best-chain header below the tip and does not exceed the tip's work
ForkFirst(a) ==
    /\ announced >= 1
    /\ a = NewHash(announced - 1)
    /\ a \in DOMAIN byHash
    /\ tip # NilHeader /\ tip.Height >= 1
    /\ Len(byHeight) = tip.Height + 1
    /\ HashAt(tip.Height) = tip.hash
    /\ byHash[a].PrevHash = HashAt(tip.Height - 1)
    /\ byHash[a].Height = tip.Height
    /\ byHash[a].ChainWork <= tip.ChainWork
    /\ ~OnBestChain(a)

\* this step admits the second header of the branch that starts with a, and
\* the branch is now strictly heavier than the tip
ForkSecond(a) ==
    /\ announced' = announced + 1
    /\ NewHash(announced) \in DOMAIN byHash'
    /\ byHash'[NewHash(announced)].PrevHash = a
    /\ byHash'[NewHash(announced)].Height = byHash[a].Height + 1
    /\ byHash'[NewHash(announced)].ChainWork > tip.ChainWork

\* C2: reorg win.  With the tip at height H and a linked best chain, when the
\* two headers of a branch forking from the best-chain header at H-1 are
\* announced one after the other with their true heights (the first not
\* heavier than the tip, the second making the branch strictly heavier), then
\* after the second admission tip.Height = H+1, byHeight[H] is the hash of the
\* branch's first header and the old header at H is still in byHash.
C2_ReorgWin ==
    [][\A a \in DOMAIN byHash :
          (HonestHeights /\ Linkage /\ ForkFirst(a) /\ ForkSecond(a)) =>
              /\ tip'.Height = tip.Height + 1
              /\ byHeight'[tip.Height + 1] = a
              /\ tip.hash \in DOMAIN byHash']_vars

\* the height below which pruneOrphans is to have removed side headers
PruneFloor == IF tip.Height > OrphanDepth THEN tip.Height - OrphanDepth ELSE 0

\* C7: pruning bound.  After every accepted admission, one that only adds a
\* side-branch header included, every header in byHash that is not on the
\* best chain has Height >= max(0, tip.Height - 100).  Stated here for the
\* runs in which every claimed height was the parent's height plus one.
C7_PruningBound ==
    (HonestHeights /\ tip # NilHeader) =>
        \A h \in DOMAIN byHash :
            OnBestChain(h) \/ byHash[h].Height >= PruneFloor

\* C9: an announcement whose parent is known and whose claimed height is not
\* parent.Height + 1 is rejected with InvalidHeader and leaves byHash, byHeight
\* and tip unchanged.
C9_HeightChecked ==
    [][wrong' # wrong =>
          /\ lastErr' = "InvalidHeader"
          /\ byHash' = byHash /\ byHeight' = byHeight /\ tip' = tip]_vars

\* C10: re-admission is a no-op.  Announcing a header whose hash is already in
\* byHash returns without error and leaves tip, byHeight and byHash unchanged,
\* and no admission changes the record byHash holds for another hash.
C10_ReadmissionNoOp ==
    [][/\ announced' = announced =>
            /\ lastErr' = "nil"
            /\ tip' = tip /\ byHeight' = byHeight /\ byHash' = byHash
       /\ \A h \in (DOMAIN byHash) \cap (DOMAIN byHash') :
            byHash'[h] = byHash[h]]_vars

\* this step admits a new header whose parent is on the best chain and whose
\* ChainWork does not exceed the tip's
ForkLoss ==
    /\ announced' = announced + 1
    /\ NewHash(announced) \in DOMAIN byHash'
    /\ OnBestChain(byHash'[NewHash(announced)].PrevHash)
    /\ byHash'[NewHash(announced)].ChainWork <= tip.ChainWork

GenesisHash == 1

\* C12: genesis is always present.  Once NewChainManager has returned, also
\* on a storage path without manifest, byHeight[0] is the genesis hash and
\* GetHeaderByHeight(0) succeeds, and this stays so after every admission.
C12_GenesisPresent ==
    /\ Len(byHeight) > 0
    /\ byHeight[1] = GenesisHash
    /\ GetHeaderByHeight(Store, 0) # NilHeader

\* C13: lookup by height.  With a non-nil tip, GetHeaderByHeight(h) succeeds
\* for every h in 0..GetHeight() and returns a record whose Height is h, and
\* returns ErrHeaderNotFound for h > GetHeight().
C13_LookupByHeight ==
    tip # NilHeader =>
        \A h \in 0..(GetHeight(Store) + 2) :
            IF h <= GetHeight(Store)
            THEN /\ GetHeaderByHeight(Store, h) # NilHeader
                 /\ GetHeaderByHeight(Store, h).Height = h
            ELSE GetHeaderByHeight(Store, h) = NilHeader

\* C14: tip-change publication.  An admission that replaces the tip publishes
\* the new tip once on the channel Start returned: with room in the channel
\* (the consumer is ready), the channel gains exactly the new tip.
C14_TipPublished ==
    [][(loop = "running" /\ tip' # tip /\ Len(msgChan.buf) < ChanCap) =>
            msgChan'.buf = Append(msgChan.buf, tip')]_vars

C16_ProducerNotBlocked ==
    /\ [][(Len(cc.msgChan.buf) = ChanCap /\ stream' # stream) =>
              (cc'.msgChan.buf = cc.msgChan.buf /\ cc'.currentTip = stream')]_vars
    /\ cc.started ~> (stream = MaxStream \/ ~cc.started \/ cc.ctxDone)

\* the channel still holds the first tip, never read, while the reader has
\* gone on to the last tip of the stream
C16_Witness ==
    /\ seen = <<>>
    /\ cc.msgChan.buf = <<1>>
    /\ cc.currentTip = MaxStream

\* C17: last-value-wins delivery.  The value the consumer receives from the
\* tip channel is the freshest tip published so far, also when tips were
\* published while it was not reading.
C17_FreshestDelivered ==
    [][seen' # seen => seen'[Len(seen')] = cc.currentTip]_vars

C19_NotSynced ==
    /\ ~synced
    /\ [][(answer' # answer /\ ~synced) =>
            /\ answer'.err = "ErrNotSynced"
            /\ ~answer'.valid
            /\ answer'.value = 0
            /\ UNCHANGED <<chainVars, p2pVars, sseVars, synced, bootVars, lockVars>>]_vars

\* an unsynced manager whose store holds the asked header with the asked root
\* has refused the IsValidRootForHeight call
C19_Witness ==
    /\ ~synced
    /\ answer.op = "IsValidRootForHeight"
    /\ answer.err = "ErrNotSynced"
    /\ GetHeaderByHeight(Store, answer.height) # NilHeader
    /\ MerkleRoot(GetHeaderByHeight(Store, answer.height)) = answer.root
    /\ announced > 0


\* what a new ChainManager on the current storage path holds
Reloaded == loadFromLocalFiles(Disk).cm

\* C20: whenever every write so far has succeeded, a new ChainManager created
\* on the same storage path has the same byHeight sequence, the same tip hash
\* and height, and the same ChainWork for every best-chain header as the
\* manager in memory.
C20_RoundTrip ==
    /\ Reloaded.byHeight = byHeight
    /\ (tip = NilHeader) = (Reloaded.tip = NilHeader)
    /\ tip # NilHeader =>
          /\ Reloaded.tip.hash = tip.hash
          /\ Reloaded.tip.Height = tip.Height
    /\ \A i \in 1..Len(byHeight) :
          byHeight[i] \in DOMAIN byHash =>
             /\ byHeight[i] \in DOMAIN Reloaded.byHash
             /\ Reloaded.byHash[byHeight[i]].ChainWork = byHash[byHeight[i]].ChainWork

\* C21: on load only the first Count records of each manifest entry's file are
\* used: every height of the loaded best chain lies in a file the manifest
\* names, at a slot below that entry's Count.
C21_CountAuthoritative ==
    manifest.exists =>
        \A i \in 1..Len(Reloaded.byHeight) :
            LET k == (i - 1) \div FileSpan
            IN  /\ k + 1 <= Len(manifest.Files)
                /\ (i - 1) % FileSpan < manifest.Files[k + 1].Count

\* the manifest entry of the file that holds the tip
TipEntry == manifest.Files[(tip.Height \div FileSpan) + 1]

\* the manifest has an entry for every file index up to the tip's
EntriesUpToTip ==
    /\ manifest.exists
    /\ Len(manifest.Files) >= (tip.Height \div FileSpan) + 1
    /\ \A i \in 1..((tip.Height \div FileSpan) + 1) : manifest.Files[i].FileIndex = i - 1

\* the tip's entry describes the tip
TipEntryOfTip ==
    /\ TipEntry.Count = (tip.Height % FileSpan) + 1
    /\ TipEntry.LastHash = tip.hash
    /\ TipEntry.LastChainWork = tip.ChainWork

\* the tip's entry describes the best-chain header below the tip
TipEntryOfPrev ==
    tip.Height > 0 =>
        /\ GetHeaderByHeight(Store, tip.Height - 1) # NilHeader
        /\ TipEntry.PrevHash = GetHeaderByHeight(Store, tip.Height - 1).hash
        /\ TipEntry.PrevChainWork = GetHeaderByHeight(Store, tip.Height - 1).ChainWork

\* C22: after every successful updateMetadataForTip the manifest has an entry
\* for every file index from 0 to tip.Height div FileSpan, and the entry of
\* the tip's file has Count = (tip.Height mod FileSpan) + 1, LastHash and
\* LastChainWork of the tip, PrevHash and PrevChainWork of the best-chain
\* header at tip.Height - 1.
C22_ManifestOfTip ==
    (tip # NilHeader /\ lastErr = "nil") =>
        (EntriesUpToTip /\ TipEntryOfTip /\ TipEntryOfPrev)

\* C23: after every successful manifest refresh, every manifest entry whose
\* file index is below the tip's file index has FirstHeight = index * FileSpan
\* and Count = FileSpan.
C23_FullEntries ==
    (tip # NilHeader /\ manifest.exists /\ lastErr = "nil") =>
        \A i \in 1..Len(manifest.Files) :
            i - 1 < tip.Height \div FileSpan =>
                /\ manifest.Files[i].FirstHeight = (i - 1) * FileSpan
                /\ manifest.Files[i].Count = FileSpan

\* the errors SetChainTip returns when persisting fails
IOErrors == {"writeHeadersToFiles", "updateMetadataForTip"}

\* the index after this step is the one the same admission leaves when every
\* write succeeds, with the announced header as tip
MemoryApplied(header) ==
    LET ok == addBlockToChain(Store, Disk, header,
                              byHash[header.PrevHash].Height + 1, "ok")
    IN  /\ byHeight' = ok.cm.byHeight
        /\ byHash' = ok.cm.byHash
        /\ tip' = ok.cm.tip
        /\ tip'.hash = header.hash
        /\ header.hash \in DOMAIN byHash'

\* C24: when writeHeadersToFiles or updateMetadataForTip fails inside
\* SetChainTip the handler returns that error, and byHeight, byHash and tip
\* are those of the applied branch: the announced header is the tip and later
\* queries answer from the new index.
C24_NoUnwind ==
    [][(p2pClient' = p2pClient /\ lastErr' \in IOErrors) =>
          \E header \in Announceable(KnownNear) : MemoryApplied(header)]_vars

\* a failed file write left a tip in memory that no header file holds
C24_Witness ==
    /\ lastErr = "writeHeadersToFiles"
    /\ tip # NilHeader
    /\ announced > 0
    /\ tip.hash = NewHash(announced - 1)
    /\ \A k \in DOMAIN files : \A i \in 1..Len(files[k]) : files[k][i].hash # tip.hash

\* C25: for any two records A and B of byHash with A.PrevHash = hash(B),
\* A.ChainWork = B.ChainWork + work(A.Bits), whether the records come from a
\* load, from an admission or from a stored orphan.
C25_WorkAlongAncestry ==
    \A a \in DOMAIN byHash :
        byHash[a].PrevHash \in DOMAIN byHash =>
            byHash[a].ChainWork =
                byHash[byHash[a].PrevHash].ChainWork + CalculateWork(byHash[a].Bits)

\* C26: a block message that fails JSON decoding, hex decoding, the 80-byte
\* length check or header parsing makes handleBlockMessage return an error
\* and leaves byHeight, byHash, tip, the header files and the manifest as
\* they are.
C26_MalformedRejected ==
    \A msg \in RawMessages :
        Malformed(msg) =>
            LET st == handleBlockMessage(Store, Disk, msg, "ok")
            IN  /\ st.err \in DecodeErrors
                /\ st.cm = Store
                /\ st.disk = Disk

\* a handler with a loaded and extended chain has just refused a message for
\* a header it could have admitted
C26_Witness ==
    /\ lastErr = "invalid header size"
    /\ loop = "running"
    /\ announced = 1
    /\ tip # NilHeader
    /\ \E msg \in RawMessages : Malformed(msg) /\ msg.header.hash \notin DOMAIN byHash

\* a walk that ended with an error left the index as it was
WalkErrorKeepsStore ==
    (walk.active /\ ~walk'.active /\ lastErr' # "nil") =>
        UNCHANGED <<byHeight, byHash, tip>>

\* a walk ends connected to the store within the limit, or with BrokenChain
WalkOutcome ==
    (walk.active /\ ~walk'.active) =>
        \/ lastErr' = "ErrBrokenChain"
        \/ /\ walk'.hops = walk.gap
           /\ walk'.hops <= BackfillLimit
           /\ walk.anchor \in DOMAIN byHash

C28_FailsOnCorruption ==
    loop = "none" =>
        /\ (boot.damage # "none") <=> (lastErr # "nil")
        /\ boot.handed <=> (lastErr = "nil")
        /\ ~manifest.exists => (boot.handed /\ lastErr = "nil")

\* well-formed messages about a new header on a stored parent
ValidMessages == {msg \in RawMessages : ~Malformed(msg) /\ msg.header.hash \notin DOMAIN byHash}

\* handling the message now stores its header and returns no error
Processed(msg) ==
    LET st == handleBlockMessage(Store, Disk, msg, "ok")
    IN  st.err = "nil" /\ msg.header.hash \in DOMAIN st.cm.byHash

\* C29: the handler loop survives errors.  Once started, the loop runs until
\* the context is cancelled, whatever handling a message returned; and after a
\* message whose handling returned an error, every valid block message is
\* still processed.
C29_LoopSurvives ==
    /\ []((p2pClient /\ ~ctxDone) => loop = "running")
    /\ [][(loop = "running" /\ loop' # "running") => ctxDone]_vars
    /\ []((lastErr # "nil" /\ loop = "running") =>
              \A msg \in ValidMessages : Processed(msg))

\* a persistence failure was returned after a header had been admitted; the
\* loop runs and the network has more headers to announce
C29_Witness ==
    /\ lastErr \in {"writeHeadersToFiles", "updateMetadataForTip"}
    /\ loop = "running"
    /\ ~ctxDone
    /\ announced >= 1
    /\ ValidMessages # {}

\* goroutine g is handling a message or can still be handed one
Processing(g) ==
    \/ handlers[g].pc = "set"
    \/ handlers[g].open
    \/ handlers[g].left > 0

\* C30: admissions are serialized.  At most one handler goroutine created by
\* Start is processing block messages, also after Stop and a second Start; and
\* no other handler acts between a handler's tip check and its SetChainTip:
\* the header it is about to make the tip still has more work than the tip.
C30_Serialized ==
    /\ Cardinality({g \in DOMAIN handlers : Processing(g)}) <= 1
    /\ \A g \in DOMAIN handlers :
          handlers[g].pc = "set" => IsNewTip(tip, handlers[g].pending)

\* every handler goroutine has returned
AllExited == \A g \in DOMAIN handlers : handlers[g].pc = "exited"

\* C31: close is executed at most once on each tip-change channel, over any
\* sequence of Start, Stop, Start and cancellation; and once the context is
\* cancelled and the handler goroutines have returned, every channel a Start
\* returned has been closed.
C31_ClosedOnce ==
    /\ \A g \in DOMAIN handlers : handlers[g].closes <= 1
    /\ (ctxDone /\ AllExited) => \A g \in DOMAIN handlers : handlers[g].closes = 1

\* C32: tip work never decreases at run time.  Every replacement of the tip by
\* an announcement installs a record with strictly more chain work than the
\* tip it replaces, under every interleaving of admissions.
C32_TipWorkGrows ==
    [][(tip' # tip /\ tip # NilHeader) => tip'.ChainWork > tip.ChainWork]_vars

\* the slot Count - 1 of the entry's file holds the header LastHash names
EntryInFile(e) ==
    LET file == FileOf(files, e.FileIndex)
    IN  e.Count <= Len(file) /\ file[e.Count].hash = e.LastHash

\* C33: the manifest never runs ahead of the header files.  In every state
\* reached through SetChainTip calls, failing writes included, a manifest
\* entry that records count c > 0 and lastHash X has the raw header X in slot
\* c - 1 of its file.
C33_ManifestBehindFiles ==
    manifest.exists =>
        \A i \in DOMAIN manifest.Files :
            manifest.Files[i].Count > 0 => EntryInFile(manifest.Files[i])

\* the last header of the branch the step handed to SetChainTip
LastApplied == byHash'[NewHash(announced' - 1)]

\* the step is a SetChainTip whose branch ends below the best-chain height
ShorterReorg ==
    /\ announced' > announced
    /\ NewHash(announced' - 1) \in DOMAIN byHash'
    /\ LastApplied.Height < Len(byHeight) - 1

\* the hashes byHeight held from the first height of the branch upwards
Displaced ==
    {byHeight[k] : k \in (LastApplied.Height + 1 - (announced' - announced) + 1)..Len(byHeight)}

\* C34: a reorg to a shorter chain.  When SetChainTip is given a branch whose
\* last height is below the best-chain height, byHeight is truncated to
\* last.Height + 1, the tip becomes the last header of the branch, and the
\* headers that were at the overwritten and truncated heights stay in byHash
\* unless they are more than 100 below the new tip.
C34_ShorterReorg ==
    [][ShorterReorg =>
          /\ Len(byHeight') = LastApplied.Height + 1
          /\ tip' = LastApplied
          /\ \A h \in Displaced :
                \/ h \in DOMAIN byHash'
                \/ byHash[h].Height + OrphanDepth < LastApplied.Height]_vars

\* the hashes byHeight refers to after the step
ReferencedAfter == {byHeight'[k] : k \in 1..Len(byHeight')}

\* the pruning threshold of the tip after the step
ThresholdAfter == IF tip'.Height > OrphanDepth THEN tip'.Height - OrphanDepth ELSE 0

\* C35: orphan pruning removes exactly the side headers that are too old.  A
\* byHash entry is deleted by a SetChainTip if and only if its hash is not
\* the byHeight entry of any best-chain height and its Height is below
\* tip.Height - 100 (0 when tip.Height <= 100); the tip and the hashes
\* byHeight refers to are never deleted.
C35_PruneExact ==
    [][\A h \in DOMAIN byHash :
          /\ h \notin DOMAIN byHash' =>
                (h \notin ReferencedAfter /\ byHash[h].Height < ThresholdAfter)
          /\ (tip' # tip /\ h # tip'.hash /\ h \notin ReferencedAfter
                /\ byHash[h].Height < ThresholdAfter) => h \notin DOMAIN byHash']_vars

\* the headers of an answer link, each to the one before it
LinkedAnswer(got) ==
    \A i \in 2..Len(got) :
        /\ got[i].PrevHash = got[i - 1].hash
        /\ got[i].Height = got[i - 1].Height + 1

\* HandleGetHeaders takes the step that ends its loop, on a best chain each of
\* whose headers links to the one below it
RangeAnswered == req.op = "headers" /\ ~req.done /\ req'.done /\ Linkage

\* the number of best-chain headers from a height on, at most count
RangeLength(height, count, bestLength) ==
    IF bestLength <= height THEN 0
    ELSE IF bestLength - height < count THEN bestLength - height ELSE count

\* C36: the headers one HandleGetHeaders(height, count) call returns form a
\* contiguous linked sequence of length min(count, best-chain length - height),
\* also when the best chain changes between the per-height lookups.
C36_RangeLinked ==
    [][RangeAnswered =>
          /\ LinkedAnswer(req'.got)
          /\ Len(req'.got) = RangeLength(req.height, req.count, Len(byHeight'))]_vars

\* no goroutine asks for the lock while it holds it
NoReentry == \A g \in Goroutines : ~(Blocked(g) /\ Holds(g))

\* C37: no operation deadlocks on the store lock.  No code path asks for the
\* lock while the same goroutine holds it (SetChainTip calls pruneOrphans with
\* the lock held, and GetTip, GetHeaderByHeight and the file writes after it
\* released it), so every query and every admission that asks for the lock
\* eventually holds it.
C37_NoDeadlock ==
    /\ []NoReentry
    /\ \A g \in Goroutines : Blocked(g) ~> Holds(g)

\* a query waits while the handler is inside SetChainTip with the write lock
C37_Witness ==
    /\ mu.writer = "handler"
    /\ calls["handler"] # <<>>
    /\ Head(calls["handler"]) = LockOp("SetChainTip", "Unlock")
    /\ Blocked("http")

\* readSSE takes an event whose hash differs from the one before it
EventParsed == stream' # stream /\ cc'.lastHash # cc.lastHash

\* C38: ChainClient.readSSE never delivers two consecutive tip events with the
\* same hash, and after every parsed event whose hash differs from the previous
\* one ChainClient.GetTip returns that event's header, also when the send on
\* the channel was dropped.
C38_NoRepeatDelivered ==
    /\ [](\A i \in 1..(Len(seen) - 1) : seen[i + 1] # seen[i])
    /\ [][EventParsed => cc'.currentTip = cc'.lastHash]_vars

\* the stream of the k-th Start has ended, or a Stop has cancelled its context
Ended(k) ==
    /\ k <= Len(cc.readers)
    /\ cc.readers[k].eof \/ k \in cc.cancelled

\* C39: ChainClient channel lifecycle.  After ChainClient.Stop is called or the
\* SSE stream ends, the tip channel Start returned is eventually closed; it is
\* closed exactly once and no value is sent on it after it was closed; Stop
\* before Start and repeated Stop calls do not panic.
C39_ChannelLifecycle ==
    /\ [](cc.panic = "none")
    /\ \A k \in 1..MaxStarts : Ended(k) ~> (k <= cc.starts /\ ChannelOf(k).closed)

\* the server has set a Cache-Control header on its last answer
CacheSet == req.op # "none" /\ req.cache # ""

\* C40: the cache-control threshold is clamped.  HandleGetHeaderByHeight,
\* HandleGetHeaderByHash and HandleGetHeaders answer 'no-cache' for every
\* height within 100 of the tip and 'public, max-age=3600' only for heights
\* below tip - 100, also when the tip height is below 100.
C40_CacheClamped ==
    CacheSet =>
        req.cache = IF req.height + OrphanDepth < req.tipRead
                    THEN "public, max-age=3600"
                    ELSE "no-cache"

====
